---- MODULE Spec2Model ----
(***************************************************************************)
(* Model of the text-indexing and retrieval core of the herbal IR system   *)
(* (src/ir_app): inverted-index construction, document frequency, IDF,     *)
(* cosine retrieval, and the web layer's rebuild / load / search handlers  *)
(* over the module globals; then the query vector, the Porter stemmer for  *)
(* Bahasa Indonesia, feature selection, preprocessing, the extractive      *)
(* summarizer and the loading of the artifacts, each with a specification  *)
(* of its own over its own variables.                                      *)
(*                                                                         *)
(* Python dicts are functions with a finite domain; a Python list is a     *)
(* sequence.  A document is kept as the token list preprocess() yields.    *)
(***************************************************************************)
EXTENDS Integers, Sequences, FiniteSets, TLC

(***************************************************************************)
(* Universe of the indexing specification.                                 *)
(***************************************************************************)
DocIds == {"d1", "d2"}
Terms == {"a", "b"}
MaxLen == 2

VARIABLES
    ix_doc_tokens,   \* doc_tokens argument: doc id -> token list
    ix_allowed,      \* allowed_terms argument: None or a set of terms
    ix_smooth,       \* smooth argument of compute_idf
    ix_done,         \* which functions have been applied
    ix_index,        \* result of build_inverted_index
    ix_df,           \* result of compute_df
    ix_N,            \* N computed inside compute_idf
    ix_idf,          \* result of compute_idf
    ix_matrix,       \* per-term df column of build_tf_df_idf_matrix
    rt_q_vec,        \* retrieve argument q_vec: term -> weight
    rt_index,        \* retrieve argument index
    rt_doc_vecs,     \* retrieve argument doc_vecs: doc id -> (term -> weight)
    rt_calls,        \* the calls made so far: [top_k, result] each
    wb_corpus,       \* files of the data directories: name -> document
    wb_index_file,   \* artifacts/index.json, or None
    wb_idf_file,     \* artifacts/idf.json, or None
    wb_features_file, \* artifacts/selected_features.json, or None
    wb_DOCS,         \* global DOCS
    wb_INDEX,        \* global INDEX
    wb_IDF,          \* global IDF
    wb_MODEL,        \* global MODEL
    wb_DOC_VECS,     \* global DOC_VECS
    wb_FS_REPORT,    \* global FS_REPORT
    wb_r_pc,         \* position of the /admin/rebuild handler
    wb_r_doc_tokens, \* its local doc_tokens
    wb_r_selected,   \* its local selected_terms
    wb_s_pc,         \* position of the /search or /admin handler
    wb_s_kind,       \* which of the two requests it serves
    wb_s_used,       \* what the search has read so far: model, index, vecs
    wb_s_clean,      \* history: the globals were one generation when the
                     \* search began
    qv_q_terms,      \* build_query_vector argument q_terms
    qv_model,        \* build_query_vector argument model
    qv_index,        \* retrieve argument index
    qv_doc_vecs,     \* retrieve argument doc_vecs
    qv_vec,          \* result of build_query_vector, or None
    qv_result,       \* result of retrieve on that vector, or None
    st_input,        \* stem_word argument word
    st_word,         \* the working string of stem_word
    st_measure,      \* StemState.measure
    st_prefix_code,  \* StemState.prefix_code
    st_pc,           \* position of stem_word
    fs_doc_tokens,   \* select_features_df argument doc_tokens
    fs_min_df,       \* argument min_df
    fs_max_df_pct,   \* argument max_df_ratio, as a percentage
    fs_top_n,        \* argument top_n: None or an integer
    fs_result,       \* the (selected, report) returned, or None
    sm_text,         \* summarize_extractive argument text
    sm_idf,          \* argument idf: term -> weight
    sm_num_sentences,\* argument num_sentences
    sm_max_chars,    \* keyword max_chars of the call, or None
    sm_result,       \* outcome of the call, or None
    pp_text,         \* preprocess argument text
    pp_result,       \* the token list returned, or None
    ld_index_file,   \* content of artifacts/index.json, or None
    ld_idf_file,     \* content of artifacts/idf.json, or None
    ld_DOCS,         \* global DOCS
    ld_INDEX,        \* global INDEX
    ld_IDF,          \* global IDF
    ld_MODEL,        \* global MODEL
    ld_DOC_VECS,     \* global DOC_VECS
    ld_pc,           \* position of _load_artifacts_if_exist
    ld_outcome       \* what the call returned or raised, or None

ixVars == <<ix_doc_tokens, ix_allowed, ix_smooth, ix_done, ix_index, ix_df,
            ix_N, ix_idf, ix_matrix>>

rtVars == <<rt_q_vec, rt_index, rt_doc_vecs, rt_calls>>

wbVars == <<wb_corpus, wb_index_file, wb_idf_file, wb_features_file, wb_DOCS,
            wb_INDEX, wb_IDF, wb_MODEL, wb_DOC_VECS, wb_FS_REPORT, wb_r_pc,
            wb_r_doc_tokens, wb_r_selected, wb_s_pc, wb_s_kind, wb_s_used,
            wb_s_clean>>

qvVars == <<qv_q_terms, qv_model, qv_index, qv_doc_vecs, qv_vec, qv_result>>

stVars == <<st_input, st_word, st_measure, st_prefix_code, st_pc>>

fsVars == <<fs_doc_tokens, fs_min_df, fs_max_df_pct, fs_top_n, fs_result>>

smVars == <<sm_text, sm_idf, sm_num_sentences, sm_max_chars, sm_result>>

ppVars == <<pp_text, pp_result>>

ldVars == <<ld_index_file, ld_idf_file, ld_DOCS, ld_INDEX, ld_IDF, ld_MODEL, ld_DOC_VECS, ld_pc, ld_outcome>>

vars == <<ixVars, rtVars, wbVars, qvVars, stVars, fsVars, smVars, ppVars,
          ldVars>>

\* what the actions of one specification leave alone: the other
\* specifications' variables
notIx == <<rtVars, wbVars, qvVars, stVars, fsVars, smVars, ppVars, ldVars>>

notRt == <<ixVars, wbVars, qvVars, stVars, fsVars, smVars, ppVars, ldVars>>

notWb == <<ixVars, rtVars, qvVars, stVars, fsVars, smVars, ppVars, ldVars>>

notQv == <<ixVars, rtVars, wbVars, stVars, fsVars, smVars, ppVars, ldVars>>

notSt == <<ixVars, rtVars, wbVars, qvVars, fsVars, smVars, ppVars, ldVars>>

notFs == <<ixVars, rtVars, wbVars, qvVars, stVars, smVars, ppVars, ldVars>>

notSm == <<ixVars, rtVars, wbVars, qvVars, stVars, fsVars, ppVars, ldVars>>

notPp == <<ixVars, rtVars, wbVars, qvVars, stVars, fsVars, smVars, ldVars>>

notLd == <<ixVars, rtVars, wbVars, qvVars, stVars, fsVars, smVars, ppVars>>

(***************************************************************************)
(* Dict helpers.                                                           *)
(***************************************************************************)
EmptyDict == <<>>

\* d.get(k, default)
Get(d, k, default) == IF k \in DOMAIN d THEN d[k] ELSE default

\* d[k] = v
Put(d, k, v) == [x \in (DOMAIN d) \cup {k} |-> IF x = k THEN v ELSE d[x]]

Max(x, y) == IF x >= y THEN x ELSE y

Min(x, y) == IF x <= y THEN x ELSE y

\* All sequences over S of length 0..n
SeqsUpTo(S, n) == UNION {[1..k -> S] : k \in 0..n}

\* All dicts with keys among K and values in V
Dicts(K, V) == UNION {[D -> V] : D \in SUBSET K}

\* Optional values
None == [some |-> FALSE]

Some(v) == [some |-> TRUE, val |-> v]

\* allowed_terms: None, or a set (possibly empty)
NoneTerms == [given |-> FALSE, terms |-> {}]

SomeTerms(S) == [given |-> TRUE, terms |-> S]

(***************************************************************************)
(* indexing.build_inverted_index                                           *)
(***************************************************************************)
\* the inner loop over toks building tf_map
RECURSIVE TfMapLoop(_, _, _, _)
TfMapLoop(toks, i, allowed_terms, tf_map) ==
    IF i > Len(toks) THEN tf_map
    ELSE LET t == toks[i] IN
         IF allowed_terms.given /\ t \notin allowed_terms.terms
         THEN TfMapLoop(toks, i + 1, allowed_terms, tf_map)
         ELSE TfMapLoop(toks, i + 1, allowed_terms,
                        Put(tf_map, t, Get(tf_map, t, 0) + 1))

\* for t, tf in tf_map.items(): index.setdefault(t, {})[doc_id] = tf
RECURSIVE PostLoop(_, _, _, _)
PostLoop(index, doc_id, tf_map, todo) ==
    IF todo = {} THEN index
    ELSE LET t == CHOOSE x \in todo : TRUE
             postings == Get(index, t, EmptyDict)
         IN PostLoop(Put(index, t, Put(postings, doc_id, tf_map[t])),
                     doc_id, tf_map, todo \ {t})

\* the outer loop over doc_tokens.items()
RECURSIVE IndexLoop(_, _, _, _)
IndexLoop(doc_tokens, allowed_terms, index, todo) ==
    IF todo = {} THEN index
    ELSE LET doc_id == CHOOSE d \in todo : TRUE
             tf_map == TfMapLoop(doc_tokens[doc_id], 1, allowed_terms, EmptyDict)
         IN IndexLoop(doc_tokens, allowed_terms,
                      PostLoop(index, doc_id, tf_map, DOMAIN tf_map),
                      todo \ {doc_id})

\* variant: "if allowed_terms and ..." takes the empty set for None
build_inverted_index_truthy(doc_tokens, allowed_terms) ==
    IndexLoop(doc_tokens,
              IF allowed_terms.terms = {} THEN NoneTerms ELSE allowed_terms,
              EmptyDict, DOMAIN doc_tokens)

build_inverted_index(doc_tokens, allowed_terms) ==
    IndexLoop(doc_tokens, allowed_terms, EmptyDict, DOMAIN doc_tokens)

(***************************************************************************)
(* feature_selection.compute_df                                            *)
(***************************************************************************)
\* set(toks)
TokSet(toks) == {toks[i] : i \in DOMAIN toks}

\* for t in set(toks): df[t] = df.get(t, 0) + 1
RECURSIVE DfInner(_, _)
DfInner(df, todo) ==
    IF todo = {} THEN df
    ELSE LET t == CHOOSE x \in todo : TRUE
         IN DfInner(Put(df, t, Get(df, t, 0) + 1), todo \ {t})

RECURSIVE DfLoop(_, _, _)
DfLoop(doc_tokens, df, todo) ==
    IF todo = {} THEN df
    ELSE LET doc_id == CHOOSE d \in todo : TRUE
         IN DfLoop(doc_tokens, DfInner(df, TokSet(doc_tokens[doc_id])),
                   todo \ {doc_id})

\* variant: "for t in toks" counts every occurrence instead of every document
RECURSIVE DfLoopTokens(_, _, _)
DfLoopTokens(doc_tokens, df, todo) ==
    IF todo = {} THEN df
    ELSE LET doc_id == CHOOSE d \in todo : TRUE
             tf_map == TfMapLoop(doc_tokens[doc_id], 1, NoneTerms, EmptyDict)
         IN DfLoopTokens(doc_tokens,
                [t \in (DOMAIN df) \cup (DOMAIN tf_map) |->
                    Get(df, t, 0) + Get(tf_map, t, 0)],
                todo \ {doc_id})

compute_df_per_token(doc_tokens) ==
    DfLoopTokens(doc_tokens, EmptyDict, DOMAIN doc_tokens)

compute_df(doc_tokens) == DfLoop(doc_tokens, EmptyDict, DOMAIN doc_tokens)

(***************************************************************************)
(* indexing.compute_idf.  An IDF weight is kept exactly, as the argument   *)
(* of the logarithm: [smooth, num, den] stands for ln(num/den) + 1.0 when  *)
(* smooth and for ln(num/den) otherwise.                                   *)
(***************************************************************************)
\* docs = union of the postings' keys; N = max(1, len(docs))
idf_N(index) ==
    Max(1, Cardinality(UNION {DOMAIN index[t] : t \in DOMAIN index}))

compute_idf(index, smooth) ==
    LET N == idf_N(index) IN
    [term \in DOMAIN index |->
        LET df == Cardinality(DOMAIN index[term]) IN
        IF smooth THEN [smooth |-> TRUE, num |-> 1 + N, den |-> 1 + df]
        ELSE [smooth |-> FALSE, num |-> N, den |-> Max(1, df)]]

(***************************************************************************)
(* indexing.build_tf_df_idf_matrix: the df column of each row              *)
(***************************************************************************)
matrix_df(index, terms) ==
    [term \in terms |-> Cardinality(DOMAIN Get(index, term, EmptyDict))]

(***************************************************************************)
(* Specification of the indexing functions: the arguments are drawn in     *)
(* Init, each action applies one function to them.                         *)
(***************************************************************************)
\* the query-vector variables while another specification runs
QvIdle ==
    /\ qv_q_terms = <<>>
    /\ qv_model = [idf |-> EmptyDict]
    /\ qv_index = EmptyDict
    /\ qv_doc_vecs = EmptyDict
    /\ qv_vec = None
    /\ qv_result = None

\* the stemmer variables while another specification runs
StIdle ==
    /\ st_input = <<>>
    /\ st_word = <<>>
    /\ st_measure = 0
    /\ st_prefix_code = 0
    /\ st_pc = "idle"

\* the feature-selection variables while another specification runs
FsIdle ==
    /\ fs_doc_tokens = EmptyDict
    /\ fs_min_df = 0
    /\ fs_max_df_pct = 0
    /\ fs_top_n = None
    /\ fs_result = None

\* the summarizer variables while another specification runs
SmIdle ==
    /\ sm_text = <<>>
    /\ sm_idf = EmptyDict
    /\ sm_num_sentences = 0
    /\ sm_max_chars = None
    /\ sm_result = None

\* the preprocessing variables while another specification runs
PpIdle ==
    /\ pp_text = <<>>
    /\ pp_result = None

\* the artifact-loading variables while another specification runs
LdIdle ==
    /\ ld_index_file = None
    /\ ld_idf_file = None
    /\ ld_DOCS = EmptyDict
    /\ ld_INDEX = None
    /\ ld_IDF = EmptyDict
    /\ ld_MODEL = None
    /\ ld_DOC_VECS = None
    /\ ld_pc = "idle"
    /\ ld_outcome = None

\* the web variables while another specification runs, and at import time
WbIdle ==
    /\ wb_corpus = EmptyDict
    /\ wb_index_file = None
    /\ wb_idf_file = None
    /\ wb_features_file = None
    /\ wb_DOCS = EmptyDict
    /\ wb_INDEX = None
    /\ wb_IDF = EmptyDict
    /\ wb_MODEL = None
    /\ wb_DOC_VECS = None
    /\ wb_FS_REPORT = None
    /\ wb_r_pc = "idle"
    /\ wb_r_doc_tokens = EmptyDict
    /\ wb_r_selected = {}
    /\ wb_s_pc = "idle"
    /\ wb_s_kind = "none"
    /\ wb_s_used = EmptyDict
    /\ wb_s_clean = FALSE

\* the retrieval variables while another specification runs
RtIdle ==
    /\ rt_q_vec = EmptyDict
    /\ rt_index = EmptyDict
    /\ rt_doc_vecs = EmptyDict
    /\ rt_calls = <<>>

\* the indexing variables while another specification runs
IxIdle ==
    /\ ix_doc_tokens = EmptyDict
    /\ ix_allowed = NoneTerms
    /\ ix_smooth = TRUE
    /\ ix_done = {}
    /\ ix_index = EmptyDict
    /\ ix_df = EmptyDict
    /\ ix_N = 0
    /\ ix_idf = EmptyDict
    /\ ix_matrix = EmptyDict

IxInit ==
    /\ RtIdle
    /\ WbIdle
    /\ QvIdle
    /\ StIdle
    /\ FsIdle
    /\ SmIdle
    /\ PpIdle
    /\ LdIdle
    /\ ix_doc_tokens \in Dicts(DocIds, SeqsUpTo(Terms, MaxLen))
    /\ ix_allowed \in {NoneTerms} \cup {SomeTerms(S) : S \in SUBSET Terms}
    /\ ix_smooth \in BOOLEAN
    /\ ix_done = {}
    /\ ix_index = EmptyDict
    /\ ix_df = EmptyDict
    /\ ix_N = 0
    /\ ix_idf = EmptyDict
    /\ ix_matrix = EmptyDict

BuildInvertedIndex ==
    /\ "index" \notin ix_done
    /\ ix_index' = build_inverted_index(ix_doc_tokens, ix_allowed)
    /\ ix_done' = ix_done \cup {"index"}
    /\ UNCHANGED <<ix_doc_tokens, ix_allowed, ix_smooth, ix_df, ix_N, ix_idf,
                   ix_matrix>>
    /\ UNCHANGED notIx

ComputeDf ==
    /\ "df" \notin ix_done
    /\ ix_df' = compute_df(ix_doc_tokens)
    /\ ix_done' = ix_done \cup {"df"}
    /\ UNCHANGED <<ix_doc_tokens, ix_allowed, ix_smooth, ix_index, ix_N,
                   ix_idf, ix_matrix>>
    /\ UNCHANGED notIx

ComputeIdf ==
    /\ "index" \in ix_done
    /\ "idf" \notin ix_done
    /\ ix_N' = idf_N(ix_index)
    /\ ix_idf' = compute_idf(ix_index, ix_smooth)
    /\ ix_done' = ix_done \cup {"idf"}
    /\ UNCHANGED <<ix_doc_tokens, ix_allowed, ix_smooth, ix_index, ix_df,
                   ix_matrix>>
    /\ UNCHANGED notIx

BuildTfDfIdfMatrix ==
    /\ "idf" \in ix_done
    /\ "matrix" \notin ix_done
    /\ ix_matrix' = matrix_df(ix_index, DOMAIN ix_index)
    /\ ix_done' = ix_done \cup {"matrix"}
    /\ UNCHANGED <<ix_doc_tokens, ix_allowed, ix_smooth, ix_index, ix_df,
                   ix_N, ix_idf>>
    /\ UNCHANGED notIx

IxNext ==
    \/ BuildInvertedIndex
    \/ ComputeDf
    \/ ComputeIdf
    \/ BuildTfDfIdfMatrix

SpecIndex == IxInit /\ [][IxNext]_vars

(***************************************************************************)
(* retrieval.cosine and retrieval.retrieve.  Weights and scores are exact  *)
(* numbers; the specification draws them from small integers, on which     *)
(* float arithmetic is exact too.                                          *)
(***************************************************************************)
RDocs == {"d1", "d2", "d3"}
MaxTopK == 2
NegTopK == 2
MaxCalls == 2

RECURSIVE DotLoop(_, _, _)
DotLoop(q, d, todo) ==
    IF todo = {} THEN 0
    ELSE LET t == CHOOSE x \in todo : TRUE
         IN q[t] * Get(d, t, 0) + DotLoop(q, d, todo \ {t})

\* dot product over the smaller vector
cosine(q, d) ==
    IF q = EmptyDict \/ d = EmptyDict THEN 0
    ELSE IF Cardinality(DOMAIN q) > Cardinality(DOMAIN d)
         THEN DotLoop(d, q, DOMAIN d)
         ELSE DotLoop(q, d, DOMAIN q)

\* cands: the union of the postings' keys of the query terms
candidates(q_vec, index) ==
    UNION {DOMAIN index[t] : t \in {x \in DOMAIN q_vec : x \in DOMAIN index}}

\* the permutations of a finite set, as sequences
Perms(S) ==
    {p \in [1..Cardinality(S) -> S] : \A i, j \in DOMAIN p : i # j => p[i] # p[j]}

\* s restricted to the elements satisfying keep, order preserved
RECURSIVE FilterSeq(_, _)
FilterSeq(s, keep) ==
    IF s = <<>> THEN <<>>
    ELSE (IF Head(s) \in keep THEN <<Head(s)>> ELSE <<>>) \o FilterSeq(Tail(s), keep)

\* list.sort(key=score, reverse=True): stable, equal scores keep their order
RECURSIVE InsertDesc(_, _)
InsertDesc(sorted, x) ==
    IF sorted = <<>> THEN <<x>>
    ELSE IF Head(sorted)[2] >= x[2]
         THEN <<Head(sorted)>> \o InsertDesc(Tail(sorted), x)
         ELSE <<x>> \o sorted

RECURSIVE SortDesc(_, _)
SortDesc(sorted, rest) ==
    IF rest = <<>> THEN sorted
    ELSE SortDesc(InsertDesc(sorted, Head(rest)), Tail(rest))

\* s[:k] of a Python list
SliceTo(s, k) ==
    SubSeq(s, 1, IF k >= 0 THEN Min(k, Len(s)) ELSE Max(0, Len(s) + k))

\* the scored list before sorting: candidates in set-iteration order with
\* score > 0
RECURSIVE ScoreLoop(_, _, _)
ScoreLoop(q_vec, doc_vecs, it) ==
    IF it = <<>> THEN <<>>
    ELSE LET doc_id == Head(it)
             score == cosine(q_vec, Get(doc_vecs, doc_id, EmptyDict))
         IN (IF score > 0 THEN << <<doc_id, score>> >> ELSE <<>>)
            \o ScoreLoop(q_vec, doc_vecs, Tail(it))

\* variant: every document that has a vector is scored, not only the
\* candidates from the query terms' postings
retrieve_all_docs(q_vec, index, doc_vecs, top_k, hash_order) ==
    LET scored == ScoreLoop(q_vec, doc_vecs, FilterSeq(hash_order, DOMAIN doc_vecs))
    IN SliceTo(SortDesc(<<>>, scored), top_k)

Reverse(s) == [i \in 1..Len(s) |-> s[Len(s) + 1 - i]]

\* variant: reverse=True forgotten, the list is sorted by ascending score
retrieve_ascending(q_vec, index, doc_vecs, top_k, hash_order) ==
    LET cands == candidates(q_vec, index)
        scored == ScoreLoop(q_vec, doc_vecs, FilterSeq(hash_order, cands))
    IN SliceTo(Reverse(SortDesc(<<>>, Reverse(scored))), top_k)

\* hash_order: the order in which this process iterates a set of doc ids
\* (str hashes are salted per process), as a permutation of all doc ids
retrieve(q_vec, index, doc_vecs, top_k, hash_order) ==
    LET cands == candidates(q_vec, index)
        scored == ScoreLoop(q_vec, doc_vecs, FilterSeq(hash_order, cands))
    IN SliceTo(SortDesc(<<>>, scored), top_k)

(***************************************************************************)
(* Specification of retrieve: the arguments are drawn in Init (any index,  *)
(* any vectors, not only those built from one another), and each call      *)
(* draws top_k and the set-iteration order of its process.                 *)
(***************************************************************************)
\* the postings a term may have: any set of documents, tf 1 each
RtPostings(docs) == {[d \in S |-> 1] : S \in SUBSET docs}

\* the vectors a document may have; the empty one also stands for a
\* document that doc_vecs lacks (doc_vecs.get(doc_id, {}))
RtVecMenu ==
    {EmptyDict, [t \in {"a"} |-> 1], [t \in {"a"} |-> 2], [t \in {"a", "b"} |-> 1]}

RtInit ==
    /\ IxIdle
    /\ WbIdle
    /\ QvIdle
    /\ StIdle
    /\ FsIdle
    /\ SmIdle
    /\ PpIdle
    /\ LdIdle
    /\ rt_q_vec \in {EmptyDict, [t \in {"a"} |-> 1], [t \in {"a", "b"} |-> 1]}
    /\ rt_index \in {[t \in Terms |-> IF t = "a" THEN pa ELSE pb] :
                        pa \in RtPostings(RDocs), pb \in RtPostings({"d3"})}
    /\ rt_doc_vecs \in [RDocs -> RtVecMenu]
    /\ rt_calls = <<>>

Retrieve ==
    /\ Len(rt_calls) < MaxCalls
    /\ \E top_k \in (0 - NegTopK)..MaxTopK, hash_order \in Perms(RDocs) :
          rt_calls' = Append(rt_calls,
              [top_k |-> top_k,
               result |-> retrieve(rt_q_vec, rt_index, rt_doc_vecs, top_k,
                                   hash_order)])
    /\ UNCHANGED <<rt_q_vec, rt_index, rt_doc_vecs>>
    /\ UNCHANGED notRt

RtNext == Retrieve

SpecRetrieve == RtInit /\ [][RtNext]_vars

(***************************************************************************)
(* feature_selection.select_features_df.  max_df_ratio is kept as a        *)
(* percentage, so floor(max_df_ratio * N) is (pct * N) \div 100.           *)
(***************************************************************************)
\* the lexicographic order of the terms
TermOrder == <<"a", "b", "c">>

TermRank(t) == CHOOSE i \in DOMAIN TermOrder : TermOrder[i] = t

\* variant: equal df, the later term first
KeptBeforeTermDescending(x, y) ==
    \/ x[2] > y[2]
    \/ x[2] = y[2] /\ TermRank(x[1]) > TermRank(y[1])

\* the sort key (-df, term): x comes before y
KeptBefore(x, y) ==
    \/ x[2] > y[2]
    \/ x[2] = y[2] /\ TermRank(x[1]) < TermRank(y[1])

\* kept.sort(key=lambda x: (-x[1], x[0]))
RECURSIVE SortKept(_)
SortKept(kept) ==
    IF kept = {} THEN <<>>
    ELSE LET first == CHOOSE x \in kept : \A y \in kept \ {x} : KeptBefore(x, y)
         IN <<first>> \o SortKept(kept \ {first})

\* variant: the upper bound max_df is not applied
select_features_df_min_only(doc_tokens, min_df, max_df_pct, top_n) ==
    LET N == Cardinality(DOMAIN doc_tokens)
        df == compute_df(doc_tokens)
    IN IF N = 0
       THEN [selected |-> {}, report |-> [N |-> 0, vocab |-> 0, selected |-> 0]]
       ELSE LET max_df == Max(1, (max_df_pct * N) \div 100)
                kept == SortKept({<<t, df[t]>> : t \in
                          {x \in DOMAIN df : df[x] >= min_df}})
                cut == IF top_n.some /\ Len(kept) > top_n.val
                       THEN SliceTo(kept, top_n.val) ELSE kept
                selected == {cut[i][1] : i \in DOMAIN cut}
            IN [selected |-> selected,
                report |-> [N |-> N, vocab |-> Cardinality(DOMAIN df),
                            selected |-> Cardinality(selected),
                            min_df |-> min_df, max_df_pct |-> max_df_pct,
                            max_df |-> max_df, top_n |-> top_n]]

select_features_df(doc_tokens, min_df, max_df_pct, top_n) ==
    LET N == Cardinality(DOMAIN doc_tokens)
        df == compute_df(doc_tokens)
    IN IF N = 0
       THEN [selected |-> {}, report |-> [N |-> 0, vocab |-> 0, selected |-> 0]]
       ELSE LET max_df == Max(1, (max_df_pct * N) \div 100)
                kept == SortKept({<<t, df[t]>> : t \in
                          {x \in DOMAIN df : df[x] >= min_df /\ df[x] <= max_df}})
                cut == IF top_n.some /\ Len(kept) > top_n.val
                       THEN SliceTo(kept, top_n.val) ELSE kept
                selected == {cut[i][1] : i \in DOMAIN cut}
            IN [selected |-> selected,
                report |-> [N |-> N, vocab |-> Cardinality(DOMAIN df),
                            selected |-> Cardinality(selected),
                            min_df |-> min_df, max_df_pct |-> max_df_pct,
                            max_df |-> max_df, top_n |-> top_n]]

(***************************************************************************)
(* retrieval.TfidfModel and retrieval.build_doc_vectors.  A tf-idf weight  *)
(* (1 + ln tf) * idf is kept exactly, as the pair [tf, idf]; a vector      *)
(* stands for its L2-normalised form, which it determines.                 *)
(***************************************************************************)
TfidfModel(idf) == [idf |-> idf]

\* the weight 0.0 that idf.get(term, 0.0) gives for a missing term: ln(1/1)
ZeroIdf == [smooth |-> FALSE, num |-> 1, den |-> 1]

\* w == 0.0: ln(num/den) is 0 only for num = den, ln(num/den) + 1 never is
IdfIsZero(w) == ~w.smooth /\ w.num = w.den

tfidf(model, tf, term) == [tf |-> tf, idf |-> Get(model.idf, term, ZeroIdf)]

build_doc_vectors(index, model) ==
    LET used == {t \in DOMAIN index : ~IdfIsZero(Get(model.idf, t, ZeroIdf))}
        docs == UNION {DOMAIN index[t] : t \in used}
    IN [doc_id \in docs |->
           [t \in {x \in used : doc_id \in DOMAIN index[x]} |->
               tfidf(model, index[t][doc_id], t)]]

(***************************************************************************)
(* The web application (ir_app/webapp.py): module globals, the artifacts   *)
(* on disk, one /admin/rebuild handler and one /search or /admin handler   *)
(* running in the thread pool, uploads, and a restart of the process.      *)
(* Every statement that reads or writes a global or an artifact is a step. *)
(***************************************************************************)
WDocs == {"d1", "d2", "d3"}

\* what a file may hold, as the token list preprocess() gives
WTexts == {<<"a">>, <<"b">>}

\* the names under which files are uploaded
WUploadNames == {"d1", "d2"}

\* the data directory at the first start
WFirstCorpus == [d \in WDocs |-> IF d = "d3" THEN <<"b">> ELSE <<"a">>]

SELECT_MIN_DF == 2
SELECT_MAX_DF_PCT == 85
SELECT_TOP_N == 8000

\* load_corpus: the files of the data directories
load_corpus == wb_corpus

\* At the first start the data directory holds the documents and no
\* artifact exists, so startup() loads nothing.
WbInit ==
    /\ IxIdle
    /\ RtIdle
    /\ QvIdle
    /\ StIdle
    /\ FsIdle
    /\ SmIdle
    /\ PpIdle
    /\ LdIdle
    /\ wb_corpus = WFirstCorpus
    /\ wb_index_file = None
    /\ wb_idf_file = None
    /\ wb_features_file = None
    /\ wb_DOCS = EmptyDict
    /\ wb_INDEX = None
    /\ wb_IDF = EmptyDict
    /\ wb_MODEL = None
    /\ wb_DOC_VECS = None
    /\ wb_FS_REPORT = None
    /\ wb_r_pc = "idle"
    /\ wb_r_doc_tokens = EmptyDict
    /\ wb_r_selected = {}
    /\ wb_s_pc = "idle"
    /\ wb_s_kind = "none"
    /\ wb_s_used = EmptyDict
    /\ wb_s_clean = FALSE

\* admin_upload: writes the file into the data directory
AdminUpload ==
    /\ \E name \in WUploadNames, data \in WTexts :
          wb_corpus' = Put(wb_corpus, name, data)
    /\ UNCHANGED <<wb_index_file, wb_idf_file, wb_features_file, wb_DOCS,
                   wb_INDEX, wb_IDF, wb_MODEL, wb_DOC_VECS, wb_FS_REPORT,
                   wb_r_pc, wb_r_doc_tokens, wb_r_selected, wb_s_pc, wb_s_kind,
                   wb_s_used, wb_s_clean>>
    /\ UNCHANGED notWb

(* _rebuild_index, one step per statement *)

\* DOCS = load_corpus(...)
RebuildLoadCorpus ==
    /\ wb_r_pc = "idle"
    /\ wb_DOCS' = load_corpus
    /\ wb_r_pc' = "tokens"
    /\ UNCHANGED <<wb_corpus, wb_index_file, wb_idf_file, wb_features_file,
                   wb_INDEX, wb_IDF, wb_MODEL, wb_DOC_VECS, wb_FS_REPORT,
                   wb_r_doc_tokens, wb_r_selected, wb_s_pc, wb_s_kind,
                   wb_s_used, wb_s_clean>>
    /\ UNCHANGED notWb

\* doc_tokens = {...}; selected_terms, FS_REPORT = select_features_df(...)
RebuildSelect ==
    /\ wb_r_pc = "tokens"
    /\ LET doc_tokens == wb_DOCS
           sel == select_features_df(doc_tokens, SELECT_MIN_DF,
                                     SELECT_MAX_DF_PCT, Some(SELECT_TOP_N))
       IN /\ wb_r_doc_tokens' = doc_tokens
          /\ wb_r_selected' = sel.selected
          /\ wb_FS_REPORT' = Some(sel.report)
    /\ wb_r_pc' = "features"
    /\ UNCHANGED <<wb_corpus, wb_index_file, wb_idf_file, wb_features_file,
                   wb_DOCS, wb_INDEX, wb_IDF, wb_MODEL, wb_DOC_VECS, wb_s_pc,
                   wb_s_kind, wb_s_used, wb_s_clean>>
    /\ UNCHANGED notWb

\* json.dump({"selected_terms": ..., "report": FS_REPORT}, FEATURES_PATH)
RebuildWriteFeatures ==
    /\ wb_r_pc = "features"
    /\ wb_features_file' = Some([selected_terms |-> wb_r_selected,
                                 report |-> wb_FS_REPORT])
    /\ wb_r_pc' = "index"
    /\ UNCHANGED <<wb_corpus, wb_index_file, wb_idf_file, wb_DOCS, wb_INDEX,
                   wb_IDF, wb_MODEL, wb_DOC_VECS, wb_FS_REPORT, wb_r_doc_tokens,
                   wb_r_selected, wb_s_pc, wb_s_kind, wb_s_used, wb_s_clean>>
    /\ UNCHANGED notWb

\* INDEX = build_inverted_index(doc_tokens, allowed_terms=selected_terms)
RebuildIndex ==
    /\ wb_r_pc = "index"
    /\ wb_INDEX' = Some(build_inverted_index(wb_r_doc_tokens,
                                             SomeTerms(wb_r_selected)))
    /\ wb_r_pc' = "save_index"
    /\ UNCHANGED <<wb_corpus, wb_index_file, wb_idf_file, wb_features_file,
                   wb_DOCS, wb_IDF, wb_MODEL, wb_DOC_VECS, wb_FS_REPORT,
                   wb_r_doc_tokens, wb_r_selected, wb_s_pc, wb_s_kind,
                   wb_s_used, wb_s_clean>>
    /\ UNCHANGED notWb

\* save_index(INDEX, INDEX_PATH)
RebuildSaveIndex ==
    /\ wb_r_pc = "save_index"
    /\ wb_index_file' = wb_INDEX
    /\ wb_r_pc' = "idf"
    /\ UNCHANGED <<wb_corpus, wb_idf_file, wb_features_file, wb_DOCS, wb_INDEX,
                   wb_IDF, wb_MODEL, wb_DOC_VECS, wb_FS_REPORT, wb_r_doc_tokens,
                   wb_r_selected, wb_s_pc, wb_s_kind, wb_s_used, wb_s_clean>>
    /\ UNCHANGED notWb

\* IDF = compute_idf(INDEX, smooth=True)
RebuildIdf ==
    /\ wb_r_pc = "idf"
    /\ wb_IDF' = compute_idf(wb_INDEX.val, TRUE)
    /\ wb_r_pc' = "save_idf"
    /\ UNCHANGED <<wb_corpus, wb_index_file, wb_idf_file, wb_features_file,
                   wb_DOCS, wb_INDEX, wb_MODEL, wb_DOC_VECS, wb_FS_REPORT,
                   wb_r_doc_tokens, wb_r_selected, wb_s_pc, wb_s_kind,
                   wb_s_used, wb_s_clean>>
    /\ UNCHANGED notWb

\* json.dump(IDF, IDF_PATH)
RebuildSaveIdf ==
    /\ wb_r_pc = "save_idf"
    /\ wb_idf_file' = Some(wb_IDF)
    /\ wb_r_pc' = "model"
    /\ UNCHANGED <<wb_corpus, wb_index_file, wb_features_file, wb_DOCS,
                   wb_INDEX, wb_IDF, wb_MODEL, wb_DOC_VECS, wb_FS_REPORT,
                   wb_r_doc_tokens, wb_r_selected, wb_s_pc, wb_s_kind,
                   wb_s_used, wb_s_clean>>
    /\ UNCHANGED notWb

\* MODEL = TfidfModel(idf=IDF)
RebuildModel ==
    /\ wb_r_pc = "model"
    /\ wb_MODEL' = Some(TfidfModel(wb_IDF))
    /\ wb_r_pc' = "doc_vecs"
    /\ UNCHANGED <<wb_corpus, wb_index_file, wb_idf_file, wb_features_file,
                   wb_DOCS, wb_INDEX, wb_IDF, wb_DOC_VECS, wb_FS_REPORT,
                   wb_r_doc_tokens, wb_r_selected, wb_s_pc, wb_s_kind,
                   wb_s_used, wb_s_clean>>
    /\ UNCHANGED notWb

\* DOC_VECS = build_doc_vectors(INDEX, MODEL); the handler returns
RebuildDocVecs ==
    /\ wb_r_pc = "doc_vecs"
    /\ wb_DOC_VECS' = Some(build_doc_vectors(wb_INDEX.val, wb_MODEL.val))
    /\ wb_r_pc' = "idle"
    /\ wb_r_doc_tokens' = EmptyDict
    /\ wb_r_selected' = {}
    /\ UNCHANGED <<wb_corpus, wb_index_file, wb_idf_file, wb_features_file,
                   wb_DOCS, wb_INDEX, wb_IDF, wb_MODEL, wb_FS_REPORT, wb_s_pc,
                   wb_s_kind, wb_s_used, wb_s_clean>>
    /\ UNCHANGED notWb

(* _load_artifacts_if_exist, run inside the /search or /admin handler *)

NothingUsed == [model |-> None, index |-> None, vecs |-> None]

\* the IDF table was computed from this index
Paired(index, idf) == idf = compute_idf(index, TRUE)

\* index, model and document vectors come from one rebuild
OneGeneration(index, model, vecs) ==
    /\ Paired(index, model.idf)
    /\ vecs = build_doc_vectors(index, model)

\* search(), line 174: the globals are tested for None
SearchBegin ==
    /\ wb_s_pc = "idle"
    /\ wb_s_kind' = "search"
    /\ wb_s_pc' = IF ~wb_INDEX.some \/ ~wb_MODEL.some \/ ~wb_DOC_VECS.some
                  THEN "load_exists" ELSE "q_vec"
    /\ wb_s_clean' = /\ wb_INDEX.some /\ wb_MODEL.some /\ wb_DOC_VECS.some
                     /\ OneGeneration(wb_INDEX.val, wb_MODEL.val, wb_DOC_VECS.val)
    /\ wb_s_used' = NothingUsed
    /\ UNCHANGED <<wb_corpus, wb_index_file, wb_idf_file, wb_features_file,
                   wb_DOCS, wb_INDEX, wb_IDF, wb_MODEL, wb_DOC_VECS,
                   wb_FS_REPORT, wb_r_pc, wb_r_doc_tokens, wb_r_selected>>
    /\ UNCHANGED notWb

\* admin(), lines 276 and 308-310: with both artifacts on disk, a global
\* that is None or an empty IDF makes the page load the artifacts
AdminBegin ==
    /\ wb_s_pc = "idle"
    /\ wb_index_file.some /\ wb_idf_file.some
    /\ ~wb_INDEX.some \/ ~wb_MODEL.some \/ ~wb_DOC_VECS.some \/ wb_IDF = EmptyDict
    /\ wb_s_kind' = "admin"
    /\ wb_s_pc' = "load_exists"
    /\ wb_s_clean' = FALSE
    /\ wb_s_used' = NothingUsed
    /\ UNCHANGED <<wb_corpus, wb_index_file, wb_idf_file, wb_features_file,
                   wb_DOCS, wb_INDEX, wb_IDF, wb_MODEL, wb_DOC_VECS,
                   wb_FS_REPORT, wb_r_pc, wb_r_doc_tokens, wb_r_selected>>
    /\ UNCHANGED notWb

\* if not exists(INDEX_PATH) or not exists(IDF_PATH): return False, on
\* which search() answers "index not built"
LoadExists ==
    /\ wb_s_pc = "load_exists"
    /\ IF wb_index_file.some /\ wb_idf_file.some
       THEN /\ wb_s_pc' = "load_docs"
            /\ UNCHANGED wb_s_kind
       ELSE /\ wb_s_pc' = "idle"
            /\ wb_s_kind' = "none"
    /\ UNCHANGED <<wb_corpus, wb_index_file, wb_idf_file, wb_features_file,
                   wb_DOCS, wb_INDEX, wb_IDF, wb_MODEL, wb_DOC_VECS,
                   wb_FS_REPORT, wb_r_pc, wb_r_doc_tokens, wb_r_selected,
                   wb_s_used, wb_s_clean>>
    /\ UNCHANGED notWb

\* DOCS = load_corpus(...)
LoadDocs ==
    /\ wb_s_pc = "load_docs"
    /\ wb_DOCS' = load_corpus
    /\ wb_s_pc' = "load_index"
    /\ UNCHANGED <<wb_corpus, wb_index_file, wb_idf_file, wb_features_file,
                   wb_INDEX, wb_IDF, wb_MODEL, wb_DOC_VECS, wb_FS_REPORT,
                   wb_r_pc, wb_r_doc_tokens, wb_r_selected, wb_s_kind,
                   wb_s_used, wb_s_clean>>
    /\ UNCHANGED notWb

\* INDEX = load_index(INDEX_PATH)
LoadIndex ==
    /\ wb_s_pc = "load_index"
    /\ wb_INDEX' = wb_index_file
    /\ wb_s_pc' = "load_idf"
    /\ UNCHANGED <<wb_corpus, wb_index_file, wb_idf_file, wb_features_file,
                   wb_DOCS, wb_IDF, wb_MODEL, wb_DOC_VECS, wb_FS_REPORT,
                   wb_r_pc, wb_r_doc_tokens, wb_r_selected, wb_s_kind,
                   wb_s_used, wb_s_clean>>
    /\ UNCHANGED notWb

\* IDF = {k: float(v) for k, v in json.load(f).items()}
LoadIdf ==
    /\ wb_s_pc = "load_idf"
    /\ wb_IDF' = wb_idf_file.val
    /\ wb_s_pc' = "load_model"
    /\ UNCHANGED <<wb_corpus, wb_index_file, wb_idf_file, wb_features_file,
                   wb_DOCS, wb_INDEX, wb_MODEL, wb_DOC_VECS, wb_FS_REPORT,
                   wb_r_pc, wb_r_doc_tokens, wb_r_selected, wb_s_kind,
                   wb_s_used, wb_s_clean>>
    /\ UNCHANGED notWb

\* MODEL = TfidfModel(idf=IDF)
LoadModel ==
    /\ wb_s_pc = "load_model"
    /\ wb_MODEL' = Some(TfidfModel(wb_IDF))
    /\ wb_s_pc' = "load_vecs"
    /\ UNCHANGED <<wb_corpus, wb_index_file, wb_idf_file, wb_features_file,
                   wb_DOCS, wb_INDEX, wb_IDF, wb_DOC_VECS, wb_FS_REPORT,
                   wb_r_pc, wb_r_doc_tokens, wb_r_selected, wb_s_kind,
                   wb_s_used, wb_s_clean>>
    /\ UNCHANGED notWb

\* DOC_VECS = build_doc_vectors(INDEX, MODEL)
LoadDocVecs ==
    /\ wb_s_pc = "load_vecs"
    /\ wb_DOC_VECS' = Some(build_doc_vectors(wb_INDEX.val, wb_MODEL.val))
    /\ wb_s_pc' = "load_report"
    /\ UNCHANGED <<wb_corpus, wb_index_file, wb_idf_file, wb_features_file,
                   wb_DOCS, wb_INDEX, wb_IDF, wb_MODEL, wb_FS_REPORT, wb_r_pc,
                   wb_r_doc_tokens, wb_r_selected, wb_s_kind, wb_s_used,
                   wb_s_clean>>
    /\ UNCHANGED notWb

\* FS_REPORT = json.load(f).get("report") if the file exists; return True:
\* search() goes on to the query, admin() is done with the globals
LoadReport ==
    /\ wb_s_pc = "load_report"
    /\ wb_FS_REPORT' = IF wb_features_file.some
                       THEN wb_features_file.val.report ELSE wb_FS_REPORT
    /\ IF wb_s_kind = "search"
       THEN /\ wb_s_pc' = "q_vec"
            /\ UNCHANGED wb_s_kind
       ELSE /\ wb_s_pc' = "idle"
            /\ wb_s_kind' = "none"
    /\ UNCHANGED <<wb_corpus, wb_index_file, wb_idf_file, wb_features_file,
                   wb_DOCS, wb_INDEX, wb_IDF, wb_MODEL, wb_DOC_VECS, wb_r_pc,
                   wb_r_doc_tokens, wb_r_selected, wb_s_used, wb_s_clean>>
    /\ UNCHANGED notWb

(* search(), lines 194-195 *)

\* q_vec = build_query_vector(q_terms, MODEL)
SearchQueryVector ==
    /\ wb_s_pc = "q_vec"
    /\ wb_s_used' = [wb_s_used EXCEPT !.model = wb_MODEL]
    /\ wb_s_pc' = "read_index"
    /\ UNCHANGED <<wb_corpus, wb_index_file, wb_idf_file, wb_features_file,
                   wb_DOCS, wb_INDEX, wb_IDF, wb_MODEL, wb_DOC_VECS,
                   wb_FS_REPORT, wb_r_pc, wb_r_doc_tokens, wb_r_selected,
                   wb_s_kind, wb_s_clean>>
    /\ UNCHANGED notWb

\* the argument INDEX of retrieve(q_vec, INDEX, DOC_VECS, top_k=top_k)
SearchReadIndex ==
    /\ wb_s_pc = "read_index"
    /\ wb_s_used' = [wb_s_used EXCEPT !.index = wb_INDEX]
    /\ wb_s_pc' = "read_vecs"
    /\ UNCHANGED <<wb_corpus, wb_index_file, wb_idf_file, wb_features_file,
                   wb_DOCS, wb_INDEX, wb_IDF, wb_MODEL, wb_DOC_VECS,
                   wb_FS_REPORT, wb_r_pc, wb_r_doc_tokens, wb_r_selected,
                   wb_s_kind, wb_s_clean>>
    /\ UNCHANGED notWb

\* the argument DOC_VECS, and the call of retrieve on what was read
SearchRetrieve ==
    /\ wb_s_pc = "read_vecs"
    /\ wb_s_used' = [wb_s_used EXCEPT !.vecs = wb_DOC_VECS]
    /\ wb_s_pc' = "ranked"
    /\ UNCHANGED <<wb_corpus, wb_index_file, wb_idf_file, wb_features_file,
                   wb_DOCS, wb_INDEX, wb_IDF, wb_MODEL, wb_DOC_VECS,
                   wb_FS_REPORT, wb_r_pc, wb_r_doc_tokens, wb_r_selected,
                   wb_s_kind, wb_s_clean>>
    /\ UNCHANGED notWb

\* the response is rendered and the handler returns
SearchReturn ==
    /\ wb_s_pc = "ranked"
    /\ wb_s_pc' = "idle"
    /\ wb_s_kind' = "none"
    /\ wb_s_used' = EmptyDict
    /\ wb_s_clean' = FALSE
    /\ UNCHANGED <<wb_corpus, wb_index_file, wb_idf_file, wb_features_file,
                   wb_DOCS, wb_INDEX, wb_IDF, wb_MODEL, wb_DOC_VECS,
                   wb_FS_REPORT, wb_r_pc, wb_r_doc_tokens, wb_r_selected>>
    /\ UNCHANGED notWb

\* The process stops at any point (both handlers with it) and is started
\* again: the globals get their import-time values and startup() runs
\* _load_artifacts_if_exist() before any request is served.
Restart ==
    /\ wb_r_pc' = "idle"
    /\ wb_r_doc_tokens' = EmptyDict
    /\ wb_r_selected' = {}
    /\ wb_s_pc' = "idle"
    /\ wb_s_kind' = "none"
    /\ wb_s_used' = EmptyDict
    /\ wb_s_clean' = FALSE
    /\ IF wb_index_file.some /\ wb_idf_file.some
       THEN /\ wb_DOCS' = load_corpus
            /\ wb_INDEX' = wb_index_file
            /\ wb_IDF' = wb_idf_file.val
            /\ wb_MODEL' = Some(TfidfModel(wb_idf_file.val))
            /\ wb_DOC_VECS' = Some(build_doc_vectors(wb_index_file.val,
                                                     TfidfModel(wb_idf_file.val)))
            /\ wb_FS_REPORT' = IF wb_features_file.some
                               THEN wb_features_file.val.report ELSE None
       ELSE /\ wb_DOCS' = EmptyDict
            /\ wb_INDEX' = None
            /\ wb_IDF' = EmptyDict
            /\ wb_MODEL' = None
            /\ wb_DOC_VECS' = None
            /\ wb_FS_REPORT' = None
    /\ UNCHANGED <<wb_corpus, wb_index_file, wb_idf_file, wb_features_file>>
    /\ UNCHANGED notWb

WbNext ==
    \/ AdminUpload
    \/ RebuildLoadCorpus
    \/ RebuildSelect
    \/ RebuildWriteFeatures
    \/ RebuildIndex
    \/ RebuildSaveIndex
    \/ RebuildIdf
    \/ RebuildSaveIdf
    \/ RebuildModel
    \/ RebuildDocVecs
    \/ SearchBegin
    \/ AdminBegin
    \/ LoadExists
    \/ LoadDocs
    \/ LoadIndex
    \/ LoadIdf
    \/ LoadModel
    \/ LoadDocVecs
    \/ LoadReport
    \/ SearchQueryVector
    \/ SearchReadIndex
    \/ SearchRetrieve
    \/ SearchReturn
    \/ Restart

Spec == WbInit /\ [][WbNext]_vars

(***************************************************************************)
(* retrieval.build_query_vector.  A weight of the query vector is kept as  *)
(* its numerator, the pair tf and idf that model.tfidf multiplies, and the *)
(* norm that divides it, so that no rounding enters the model.             *)
(***************************************************************************)
QTerms == {"a", "b", "z"}
QDocs == {"d1", "d2"}
MaxQuery == 2

\* variant: the loop counts every query term, in the IDF table or not
RECURSIVE QueryTfLoopAll(_, _, _)
QueryTfLoopAll(q_terms, idf, tf) ==
    IF q_terms = <<>> THEN tf
    ELSE LET t == Head(q_terms)
         IN QueryTfLoopAll(Tail(q_terms), idf, Put(tf, t, Get(tf, t, 0) + 1))

\* for t in q_terms: if t in model.idf: tf[t] = tf.get(t, 0) + 1
RECURSIVE QueryTfLoop(_, _, _)
QueryTfLoop(q_terms, idf, tf) ==
    IF q_terms = <<>> THEN tf
    ELSE LET t == Head(q_terms)
         IN QueryTfLoop(Tail(q_terms), idf,
                        IF t \in DOMAIN idf
                        THEN Put(tf, t, Get(tf, t, 0) + 1) ELSE tf)

\* norm = sqrt(sum(v * v)) or 1.0: the norm of vec, or 1 when every weight
\* of vec is zero (tf >= 1, so a weight is zero exactly when its idf is)
QueryNorm(vec) ==
    [unit |-> \A t \in DOMAIN vec : IdfIsZero(vec[t].idf), of |-> vec]

\* variant: terms that the IDF table lacks are kept, with the weight that
\* idf.get(term, 0.0) gives them
build_query_vector_unseen(q_terms, model) ==
    LET tf == QueryTfLoopAll(q_terms, model.idf, EmptyDict)
        vec == [t \in DOMAIN tf |-> tfidf(model, tf[t], t)]
        norm == QueryNorm(vec)
    IN [t \in DOMAIN vec |-> [num |-> vec[t], norm |-> norm]]

build_query_vector(q_terms, model) ==
    LET tf == QueryTfLoop(q_terms, model.idf, EmptyDict)
        vec == [t \in DOMAIN tf |-> tfidf(model, tf[t], t)]
        norm == QueryNorm(vec)
    IN [t \in DOMAIN vec |-> [num |-> vec[t], norm |-> norm]]

(***************************************************************************)
(* Specification of build_query_vector followed by retrieve: the           *)
(* arguments are drawn in Init.  The IDF tables hold the two IDF values    *)
(* that are whole numbers, 0 = ln(N/N) and 1 = ln(N/N) + 1, so that the    *)
(* numerators of the query weights can be computed.                        *)
(***************************************************************************)
\* the smooth IDF of a term that every document holds: ln(2/2) + 1.0
OneIdf == [smooth |-> TRUE, num |-> 2, den |-> 2]

\* 1.0 + math.log(tf), in thousandths (the queries of this specification
\* repeat a term a few times at most)
LogTf(tf) ==
    CASE tf = 1 -> 1000
      [] tf = 2 -> 1693
      [] tf = 3 -> 2099
      [] OTHER -> 2386

\* (1.0 + math.log(tf)) * idf for the two IDF values above, in thousandths
NumeratorValue(w) == LogTf(w.tf) * (IF w.idf.smooth THEN 1 ELSE 0)

\* the query vector in units of 1/norm.  Every weight of q_vec is divided
\* by the same positive norm, so retrieve's scores are those of the
\* numerators divided by it: same signs, same order
Numerators(q_vec) == [t \in DOMAIN q_vec |-> NumeratorValue(q_vec[t].num)]

QvIndexMenu ==
    {EmptyDict,
     [t \in QTerms |-> IF t = "b" THEN [d \in {"d2"} |-> 1]
                       ELSE [d \in QDocs |-> 1]]}

QvDocVecsMenu ==
    {EmptyDict,
     [d \in QDocs |-> IF d = "d1" THEN [t \in {"a", "z"} |-> 1]
                      ELSE [t \in QTerms |-> 2]]}

QvInit ==
    /\ IxIdle
    /\ RtIdle
    /\ WbIdle
    /\ StIdle
    /\ FsIdle
    /\ SmIdle
    /\ PpIdle
    /\ LdIdle
    /\ qv_q_terms \in SeqsUpTo(QTerms, MaxQuery)
    /\ qv_model \in {TfidfModel(idf) : idf \in Dicts({"a", "b"}, {ZeroIdf, OneIdf})}
    /\ qv_index \in QvIndexMenu
    /\ qv_doc_vecs \in QvDocVecsMenu
    /\ qv_vec = None
    /\ qv_result = None

BuildQueryVector ==
    /\ qv_vec = None
    /\ qv_vec' = Some(build_query_vector(qv_q_terms, qv_model))
    /\ UNCHANGED <<qv_q_terms, qv_model, qv_index, qv_doc_vecs, qv_result>>
    /\ UNCHANGED notQv

\* retrieve(q_vec, index, doc_vecs, top_k) on the vector just built
QueryRetrieve ==
    /\ qv_vec # None
    /\ qv_result = None
    /\ \E top_k \in 1..MaxTopK, hash_order \in Perms(QDocs) :
          qv_result' = Some(retrieve(Numerators(qv_vec.val), qv_index,
                                     qv_doc_vecs, top_k, hash_order))
    /\ UNCHANGED <<qv_q_terms, qv_model, qv_index, qv_doc_vecs, qv_vec>>
    /\ UNCHANGED notQv

QvNext == BuildQueryVector \/ QueryRetrieve

SpecQuery == QvInit /\ [][QvNext]_vars

(***************************************************************************)
(* stemmer_porter_id: the Porter stemmer for Bahasa Indonesia.  A word is  *)
(* the sequence of its characters.  A remove_ function of the source       *)
(* changes the StemState it is given and returns the word (and whether it  *)
(* removed something); here it returns the record of the word, the new     *)
(* StemState and that flag.                                                *)
(***************************************************************************)
VOWELS == {"a", "e", "i", "o", "u"}

count_vowels(s) == Cardinality({i \in DOMAIN s : s[i] \in VOWELS})

StemState(measure, prefix_code) ==
    [measure |-> measure, prefix_code |-> prefix_code]

\* word.endswith(suf)
EndsWith(word, suf) ==
    /\ Len(word) >= Len(suf)
    /\ SubSeq(word, Len(word) - Len(suf) + 1, Len(word)) = suf

\* word.startswith(p)
StartsWith(word, p) == Len(word) >= Len(p) /\ SubSeq(word, 1, Len(p)) = p

\* word[:-n]
DropLast(word, n) == SubSeq(word, 1, Len(word) - n)

\* word[n:]
DropFirst(word, n) == SubSeq(word, n + 1, Len(word))

\* what a remove_ function hands back
Kept(word, st) == [word |-> word, st |-> st, removed |-> FALSE]

\* variant: a removal that leaves st.measure as it was
RemovedUncounted(word, st, code) ==
    [word |-> word, st |-> StemState(st.measure, code), removed |-> TRUE]

\* ... after a removal: st.measure -= 1, st.prefix_code = code
Removed(word, st, code) ==
    [word |-> word, st |-> StemState(st.measure - 1, code), removed |-> TRUE]

\* variant of the loop below without its break: every suffix of the tuple
\* that the word ends with in turn is removed
RECURSIVE StripEvery(_, _, _)
StripEvery(word, st, sufs) ==
    IF sufs = <<>> THEN Kept(word, st)
    ELSE IF EndsWith(word, Head(sufs)) /\ st.measure > 2
         THEN LET rest == StripEvery(DropLast(word, Len(Head(sufs))),
                                     StemState(st.measure - 1, st.prefix_code),
                                     Tail(sufs))
              IN [rest EXCEPT !.removed = TRUE]
         ELSE StripEvery(word, st, Tail(sufs))

\* for suf in sufs: if word.endswith(suf) and st.measure > 2: remove, break
RECURSIVE StripFirst(_, _, _)
StripFirst(word, st, sufs) ==
    IF sufs = <<>> THEN Kept(word, st)
    ELSE IF EndsWith(word, Head(sufs)) /\ st.measure > 2
         THEN Removed(DropLast(word, Len(Head(sufs))), st, st.prefix_code)
         ELSE StripFirst(word, st, Tail(sufs))

Particles == <<<<"k", "a", "h">>, <<"l", "a", "h">>, <<"p", "u", "n">>>>

PossessivePronouns == <<<<"k", "u">>, <<"m", "u">>, <<"n", "y", "a">>>>

\* variant: a particle behind a particle is removed too
remove_particle_repeated(word, st) == StripEvery(word, st, Particles)

remove_particle(word, st) == StripFirst(word, st, Particles)

remove_possessive_pronoun(word, st) == StripFirst(word, st, PossessivePronouns)

\* for p in ps: if w.startswith(p) and len(w) > len(p): remove p
RECURSIVE PrefixLoop(_, _, _, _)
PrefixLoop(w, st, ps, code) ==
    IF ps = <<>> THEN Kept(w, st)
    ELSE IF StartsWith(w, Head(ps)) /\ Len(w) > Len(Head(ps))
         THEN Removed(DropFirst(w, Len(Head(ps))), st, code)
         ELSE PrefixLoop(w, st, Tail(ps), code)

remove_first_order_prefix(word, st) ==
    LET w == word
        code1 == PrefixLoop(w, st, <<<<"d", "i">>, <<"m", "e", "n", "g">>, <<"m", "e">>, <<"t", "e", "r">>>>, 1)
        code3 == PrefixLoop(w, st, <<<<"k", "e">>, <<"p", "e", "n", "g">>>>, 3)
    IN IF code1.removed THEN code1
       ELSE IF StartsWith(w, <<"m", "e", "n", "y">>) /\ Len(w) >= 5 /\ w[5] \in VOWELS
       THEN Removed(<<"s">> \o DropFirst(w, 4), st, 1)
       ELSE IF StartsWith(w, <<"m", "e", "n">>) /\ Len(w) > 3
       THEN Removed(DropFirst(w, 3), st, 1)
       ELSE IF code3.removed THEN code3
       ELSE IF StartsWith(w, <<"p", "e", "n", "y">>) /\ Len(w) >= 5 /\ w[5] \in VOWELS
       THEN Removed(<<"s">> \o DropFirst(w, 4), st, 3)
       ELSE IF StartsWith(w, <<"p", "e", "n">>) /\ Len(w) > 3
       THEN Removed(DropFirst(w, 3), st, 3)
       ELSE IF StartsWith(w, <<"m", "e", "m">>) /\ Len(w) > 3
       THEN LET rest == DropFirst(w, 3)
            IN Removed(IF rest # <<>> /\ rest[1] \in VOWELS
                       THEN <<"p">> \o rest ELSE rest, st, 1)
       ELSE IF StartsWith(w, <<"p", "e", "m">>) /\ Len(w) > 3
       THEN LET rest == DropFirst(w, 3)
            IN Removed(IF rest # <<>> /\ rest[1] \in VOWELS
                       THEN <<"p">> \o rest ELSE rest, st, 3)
       ELSE Kept(word, st)

remove_second_order_prefix(word, st) ==
    LET w == word
    IN IF StartsWith(w, <<"p", "e", "l", "a", "j", "a", "r">>) THEN Removed(DropFirst(w, 3), st, 2)
       ELSE IF StartsWith(w, <<"p", "e", "r">>) /\ Len(w) > 3
       THEN Removed(DropFirst(w, 3), st, 2)
       ELSE IF StartsWith(w, <<"p", "e">>) /\ Len(w) > 2
       THEN Removed(DropFirst(w, 2), st, 2)
       ELSE IF StartsWith(w, <<"b", "e", "l", "a", "j", "a", "r">>) THEN Removed(DropFirst(w, 3), st, 4)
       ELSE IF StartsWith(w, <<"b", "e", "r">>) /\ Len(w) > 3
       THEN Removed(DropFirst(w, 3), st, 4)
       ELSE IF /\ StartsWith(w, <<"b", "e">>)
               /\ Len(w) >= 5
               /\ w[3] \notin VOWELS
               /\ SubSeq(w, 4, 5) = <<"e", "r">>
       THEN Removed(DropFirst(w, 2), st, 4)
       ELSE IF StartsWith(w, <<"b", "e">>) /\ Len(w) > 2
       THEN Removed(DropFirst(w, 2), st, 4)
       ELSE Kept(word, st)

\* variant: the suffix -i is removed from a word in -si as well
remove_suffix_si(word, st) ==
    LET w == word
    IN IF st.measure <= 2 THEN Kept(w, st)
       ELSE IF EndsWith(w, <<"k", "a", "n">>) /\ Len(w) > 3
       THEN IF st.prefix_code \notin {2, 3}
            THEN Removed(DropLast(w, 3), st, st.prefix_code)
            ELSE IF st.prefix_code # 1
                 THEN Removed(DropLast(w, 2), st, st.prefix_code)
                 ELSE Kept(w, st)
       ELSE IF EndsWith(w, <<"a", "n">>) /\ Len(w) > 2
       THEN IF st.prefix_code # 1
            THEN Removed(DropLast(w, 2), st, st.prefix_code)
            ELSE Kept(w, st)
       ELSE IF EndsWith(w, <<"i">>) /\ Len(w) > 1
       THEN IF st.prefix_code <= 2
            THEN Removed(DropLast(w, 1), st, st.prefix_code)
            ELSE Kept(w, st)
       ELSE Kept(w, st)

remove_suffix(word, st) ==
    LET w == word
    IN IF st.measure <= 2 THEN Kept(w, st)
       ELSE IF EndsWith(w, <<"k", "a", "n">>) /\ Len(w) > 3
       THEN IF st.prefix_code \notin {2, 3}
            THEN Removed(DropLast(w, 3), st, st.prefix_code)
            ELSE IF st.prefix_code # 1
                 THEN Removed(DropLast(w, 2), st, st.prefix_code)
                 ELSE Kept(w, st)
       ELSE IF EndsWith(w, <<"a", "n">>) /\ Len(w) > 2
       THEN IF st.prefix_code # 1
            THEN Removed(DropLast(w, 2), st, st.prefix_code)
            ELSE Kept(w, st)
       ELSE IF EndsWith(w, <<"i">>) /\ Len(w) > 1
       THEN IF st.prefix_code <= 2 /\ ~EndsWith(w, <<"s", "i">>)
            THEN Removed(DropLast(w, 1), st, st.prefix_code)
            ELSE Kept(w, st)
       ELSE Kept(w, st)

\* variant of the test below: stemming goes on at measure 2
StemReturnsBelowTwo(st) == st.measure < 2

\* if st.measure <= 2: return (the gate, and after each backward removal)
StemReturns(st) == st.measure <= 2

stem_word(word) ==
    IF word = <<>> THEN word
    ELSE LET st0 == StemState(count_vowels(word), 0) IN
    IF StemReturns(st0) THEN word
    ELSE LET r1 == remove_particle(word, st0) IN
    IF StemReturns(r1.st) THEN r1.word
    ELSE LET r2 == remove_possessive_pronoun(r1.word, r1.st) IN
    IF StemReturns(r2.st) THEN r2.word
    ELSE LET st3 == StemState(r2.st.measure, 0)
             r3 == remove_first_order_prefix(r2.word, st3)
         IN IF r3.removed
            THEN LET r4 == IF r3.st.measure > 2
                           THEN remove_suffix(r3.word, r3.st) ELSE r3
                     r5 == IF r4.st.measure > 2
                           THEN remove_second_order_prefix(r4.word, r4.st)
                           ELSE r4
                 IN r5.word
            ELSE LET r6 == remove_second_order_prefix(r2.word, st3)
                     r7 == IF r6.removed /\ r6.st.measure > 2
                           THEN remove_suffix(r6.word, r6.st) ELSE r6
                 IN r7.word

\* [stem_word(t) for t in tokens]
stem_tokens(tokens) == [i \in DOMAIN tokens |-> stem_word(tokens[i])]

(***************************************************************************)
(* Specification of stem_word: the word is drawn in Init as prefix + root  *)
(* + suffix + possessive + particle, each part from a menu that has the    *)
(* empty string; the actions are the steps of stem_word, one per call of a *)
(* remove_ function.                                                       *)
(***************************************************************************)
StPrefixes ==
    {<<>>, <<"d", "i">>, <<"m", "e", "n", "g">>, <<"m", "e">>,
     <<"t", "e", "r">>, <<"m", "e", "n", "y">>, <<"m", "e", "n">>,
     <<"m", "e", "m">>, <<"k", "e">>, <<"p", "e", "n", "g">>,
     <<"p", "e", "n", "y">>, <<"p", "e", "n">>, <<"p", "e", "m">>,
     <<"p", "e", "r">>, <<"p", "e">>, <<"p", "e", "l">>, <<"b", "e", "r">>,
     <<"b", "e">>, <<"b", "e", "l">>}

StRoots ==
    {<<>>, <<"a">>, <<"a", "j", "a", "r">>, <<"b", "u", "k", "u">>,
     <<"m", "a", "k", "a", "n">>,
     <<"o", "r", "g", "a", "n", "i", "s", "a", "s", "i">>,
     <<"s", "a", "p", "u">>, <<"k", "e", "r", "j", "a">>, <<"a", "p", "u">>}

StSuffixes ==
    {<<>>, <<"k", "a", "n">>, <<"a", "n">>, <<"i">>}

StPossessives ==
    {<<>>, <<"k", "u">>, <<"m", "u">>, <<"n", "y", "a">>,
     <<"k", "u", "n", "y", "a">>}

StParticles ==
    {<<>>, <<"k", "a", "h">>, <<"l", "a", "h">>, <<"p", "u", "n">>,
     <<"l", "a", "h", "k", "a", "h">>}

StemWords ==
    {p \o r \o s \o q \o c :
        p \in StPrefixes, r \in StRoots, s \in StSuffixes,
        q \in StPossessives, c \in StParticles}

StInit ==
    /\ IxIdle
    /\ RtIdle
    /\ WbIdle
    /\ QvIdle
    /\ FsIdle
    /\ SmIdle
    /\ PpIdle
    /\ LdIdle
    /\ st_input \in StemWords
    /\ st_word = st_input
    /\ st_measure = 0
    /\ st_prefix_code = 0
    /\ st_pc = "call"

\* lines 187-194: the empty word, the StemState, the gate
StemBegin ==
    /\ st_pc = "call"
    /\ IF st_word = <<>>
       THEN /\ st_pc' = "done"
            /\ UNCHANGED st_measure
       ELSE /\ st_measure' = count_vowels(st_word)
            /\ st_pc' = IF StemReturns(StemState(st_measure', 0))
                        THEN "done" ELSE "particle"
    /\ UNCHANGED <<st_input, st_word, st_prefix_code>>
    /\ UNCHANGED notSt

\* lines 197-199
RemoveParticle ==
    /\ st_pc = "particle"
    /\ LET r == remove_particle(st_word, StemState(st_measure, st_prefix_code))
       IN /\ st_word' = r.word
          /\ st_measure' = r.st.measure
          /\ st_pc' = IF StemReturns(r.st) THEN "done" ELSE "possessive"
    /\ UNCHANGED <<st_input, st_prefix_code>>
    /\ UNCHANGED notSt

\* lines 200-202
RemovePossessivePronoun ==
    /\ st_pc = "possessive"
    /\ LET r == remove_possessive_pronoun(st_word,
                                          StemState(st_measure, st_prefix_code))
       IN /\ st_word' = r.word
          /\ st_measure' = r.st.measure
          /\ st_pc' = IF StemReturns(r.st) THEN "done" ELSE "first"
    /\ UNCHANGED <<st_input, st_prefix_code>>
    /\ UNCHANGED notSt

\* lines 205-207: when nothing is removed, line 215 comes next
RemoveFirstOrderPrefix ==
    /\ st_pc = "first"
    /\ LET r == remove_first_order_prefix(st_word, StemState(st_measure, 0))
       IN /\ st_word' = r.word
          /\ st_measure' = r.st.measure
          /\ st_prefix_code' = r.st.prefix_code
          /\ st_pc' = IF ~r.removed THEN "second"
                      ELSE IF r.st.measure > 2 THEN "suffix_after_first"
                      ELSE "done"
    /\ UNCHANGED st_input
    /\ UNCHANGED notSt

\* lines 208-209
RemoveSuffixAfterFirst ==
    /\ st_pc = "suffix_after_first"
    /\ LET r == remove_suffix(st_word, StemState(st_measure, st_prefix_code))
       IN /\ st_word' = r.word
          /\ st_measure' = r.st.measure
          /\ st_prefix_code' = r.st.prefix_code
          /\ st_pc' = IF r.st.measure > 2 THEN "second_after_first" ELSE "done"
    /\ UNCHANGED st_input
    /\ UNCHANGED notSt

\* lines 210-212
RemoveSecondOrderPrefixAfterFirst ==
    /\ st_pc = "second_after_first"
    /\ LET r == remove_second_order_prefix(st_word,
                                           StemState(st_measure, st_prefix_code))
       IN /\ st_word' = r.word
          /\ st_measure' = r.st.measure
          /\ st_prefix_code' = r.st.prefix_code
          /\ st_pc' = "done"
    /\ UNCHANGED st_input
    /\ UNCHANGED notSt

\* lines 215-216
RemoveSecondOrderPrefix ==
    /\ st_pc = "second"
    /\ LET r == remove_second_order_prefix(st_word,
                                           StemState(st_measure, st_prefix_code))
       IN /\ st_word' = r.word
          /\ st_measure' = r.st.measure
          /\ st_prefix_code' = r.st.prefix_code
          /\ st_pc' = IF r.removed /\ r.st.measure > 2
                      THEN "suffix_after_second" ELSE "done"
    /\ UNCHANGED st_input
    /\ UNCHANGED notSt

\* lines 216-218
RemoveSuffixAfterSecond ==
    /\ st_pc = "suffix_after_second"
    /\ LET r == remove_suffix(st_word, StemState(st_measure, st_prefix_code))
       IN /\ st_word' = r.word
          /\ st_measure' = r.st.measure
          /\ st_prefix_code' = r.st.prefix_code
          /\ st_pc' = "done"
    /\ UNCHANGED st_input
    /\ UNCHANGED notSt

StNext ==
    \/ StemBegin
    \/ RemoveParticle
    \/ RemovePossessivePronoun
    \/ RemoveFirstOrderPrefix
    \/ RemoveSuffixAfterFirst
    \/ RemoveSecondOrderPrefixAfterFirst
    \/ RemoveSecondOrderPrefix
    \/ RemoveSuffixAfterSecond

SpecStem == StInit /\ [][StNext]_vars

(***************************************************************************)
(* Specification of select_features_df: the arguments are drawn in Init.   *)
(* For the ratios and corpus sizes drawn here the float product            *)
(* max_df_ratio * N has the floor of the exact product.                    *)
(***************************************************************************)
FsDocs == {"d1", "d2", "d3"}

\* the token lists a document may have
FsTokenLists ==
    {<<>>, <<"a">>, <<"b">>, <<"c">>, <<"a", "a">>, <<"a", "b">>,
     <<"b", "a">>, <<"a", "c">>}

\* max_df_ratio: 0.0, 0.5, 0.85 (the default), 1.0
FsRatios == {0, 50, 85, 100}

MaxMinDf == 3
MaxTopN == 3

FsInit ==
    /\ IxIdle
    /\ RtIdle
    /\ WbIdle
    /\ QvIdle
    /\ StIdle
    /\ SmIdle
    /\ PpIdle
    /\ LdIdle
    /\ fs_doc_tokens \in Dicts(FsDocs, FsTokenLists)
    /\ fs_min_df \in 0..MaxMinDf
    /\ fs_max_df_pct \in FsRatios
    /\ fs_top_n \in {None} \cup {Some(n) : n \in (0 - 1)..MaxTopN}
    /\ fs_result = None

SelectFeaturesDf ==
    /\ fs_result = None
    /\ fs_result' = Some(select_features_df(fs_doc_tokens, fs_min_df,
                                            fs_max_df_pct, fs_top_n))
    /\ UNCHANGED <<fs_doc_tokens, fs_min_df, fs_max_df_pct, fs_top_n>>
    /\ UNCHANGED notFs

FsNext == SelectFeaturesDf

SpecSelect == FsInit /\ [][FsNext]_vars

(***************************************************************************)
(* preprocessing: tokenize, remove_stopwords, preprocess.  A text is the   *)
(* sequence of its characters, a token the sequence of its letters.        *)
(***************************************************************************)
LowerCase ==
    {"a", "b", "c", "d", "e", "f", "g", "h", "i", "j", "k", "l", "m",
     "n", "o", "p", "q", "r", "s", "t", "u", "v", "w", "x", "y", "z"}

\* the upper-case letters and what str.lower() makes of them
UpperCase ==
    [c \in {"A", "B", "C", "D", "E", "F", "G", "H", "I", "J", "K", "L", "M",
            "N", "O", "P", "Q", "R", "S", "T", "U", "V", "W", "X", "Y", "Z"} |->
        CASE c = "A" -> "a" [] c = "B" -> "b" [] c = "C" -> "c"
          [] c = "D" -> "d" [] c = "E" -> "e" [] c = "F" -> "f"
          [] c = "G" -> "g" [] c = "H" -> "h" [] c = "I" -> "i"
          [] c = "J" -> "j" [] c = "K" -> "k" [] c = "L" -> "l"
          [] c = "M" -> "m" [] c = "N" -> "n" [] c = "O" -> "o"
          [] c = "P" -> "p" [] c = "Q" -> "q" [] c = "R" -> "r"
          [] c = "S" -> "s" [] c = "T" -> "t" [] c = "U" -> "u"
          [] c = "V" -> "v" [] c = "W" -> "w" [] c = "X" -> "x"
          [] c = "Y" -> "y" [] OTHER -> "z"]

\* TOKEN_RE = [a-zA-Z]+
IsLetter(c) == c \in LowerCase \/ c \in DOMAIN UpperCase

\* t.lower(), one character
Lower(c) == IF c \in DOMAIN UpperCase THEN UpperCase[c] ELSE c

\* TOKEN_RE.findall: the maximal runs of letters, left to right; cur is the
\* run being read
RECURSIVE FindAllLoop(_, _, _)
FindAllLoop(text, cur, out) ==
    IF text = <<>> THEN (IF cur = <<>> THEN out ELSE Append(out, cur))
    ELSE IF IsLetter(Head(text))
         THEN FindAllLoop(Tail(text), Append(cur, Lower(Head(text))), out)
         ELSE FindAllLoop(Tail(text), <<>>,
                          IF cur = <<>> THEN out ELSE Append(out, cur))

tokenize(text) == FindAllLoop(text, <<>>, <<>>)

DEFAULT_STOPWORDS ==
    {<<"a", "d", "a", "l", "a", "h">>, <<"a", "g", "a", "r">>,
     <<"a", "k", "a", "n">>, <<"a", "n", "t", "a", "r", "a">>,
     <<"a", "t", "a", "u">>, <<"b", "a", "g", "i">>,
     <<"d", "a", "l", "a", "m">>, <<"d", "a", "n">>,
     <<"d", "a", "p", "a", "t">>, <<"d", "a", "r", "i">>,
     <<"d", "e", "n", "g", "a", "n">>, <<"d", "i">>,
     <<"h", "i", "n", "g", "g", "a">>, <<"i", "n", "i">>, <<"i", "t", "u">>,
     <<"j", "u", "g", "a">>, <<"k", "a", "r", "e", "n", "a">>, <<"k", "e">>,
     <<"l", "e", "b", "i", "h">>, <<"m", "a", "k", "a">>,
     <<"m", "i", "s", "a", "l", "n", "y", "a">>, <<"o", "l", "e", "h">>,
     <<"p", "a", "d", "a">>, <<"p", "a", "r", "a">>, <<"s", "a", "a", "t">>,
     <<"s", "e", "b", "a", "g", "a", "i">>,
     <<"s", "e", "b", "u", "a", "h">>,
     <<"s", "e", "h", "i", "n", "g", "g", "a">>,
     <<"s", "e", "r", "t", "a">>, <<"s", "u", "d", "a", "h">>,
     <<"t", "a", "n", "p", "a">>, <<"t", "e", "l", "a", "h">>,
     <<"t", "e", "r", "s", "e", "b", "u", "t">>,
     <<"t", "i", "d", "a", "k">>, <<"u", "n", "t", "u", "k">>,
     <<"y", "a", "i", "t", "u">>, <<"y", "a", "k", "n", "i">>,
     <<"y", "a", "n", "g">>}

DOMAIN_STOPWORDS ==
    {<<"b", "a", "h", "a", "n">>,
     <<"b", "e", "r", "d", "a", "s", "a", "r", "k", "a", "n">>,
     <<"c", "a", "r", "a">>,
     <<"d", "i", "g", "u", "n", "a", "k", "a", "n">>,
     <<"h", "e", "r", "b", "a", "l">>,
     <<"k", "e", "s", "e", "h", "a", "t", "a", "n">>,
     <<"k", "h", "a", "s", "i", "a", "t">>, <<"o", "b", "a", "t">>,
     <<"p", "e", "m", "b", "u", "a", "t", "a", "n">>,
     <<"p", "e", "n", "g", "g", "u", "n", "a", "a", "n">>,
     <<"p", "e", "n", "y", "a", "k", "i", "t">>,
     <<"r", "a", "m", "u", "a", "n">>, <<"s", "e", "c", "a", "r", "a">>,
     <<"t", "a", "n", "a", "m", "a", "n">>,
     <<"t", "r", "a", "d", "i", "s", "i", "o", "n", "a", "l">>}

\* stop_factory.get_stop_words(): the list that the Sastrawi package ships,
\* general function words; of the words used in the specifications below
\* it holds these
data == {<<"i", "n", "i">>, <<"i", "t", "u">>, <<"y", "a", "n", "g">>}

\* stopwords is None for the default set, or Some(set)
remove_stopwords(tokens, stopwords) ==
    LET sw == IF stopwords = None
              THEN data \cup DOMAIN_STOPWORDS \cup DEFAULT_STOPWORDS
              ELSE stopwords.val
    IN SelectSeq(tokens, LAMBDA t : t \notin sw)

preprocess(text) ==
    LET toks == tokenize(text)
        kept == remove_stopwords(toks, None)
        stemmed == stem_tokens(kept)
    IN SelectSeq(stemmed, LAMBDA t : t # <<>>)

(***************************************************************************)
(* summarization: split_sentences and summarize_extractive.  IDF weights   *)
(* and scores are exact numbers; the specification draws the weights from  *)
(* small integers.                                                         *)
(***************************************************************************)
\* \s of the texts used here
Whitespace == {" "}

\* [.!?]
Terminal == {".", "!", "?"}

\* s.strip()
RECURSIVE LStrip(_)
LStrip(s) ==
    IF s # <<>> /\ Head(s) \in Whitespace THEN LStrip(Tail(s)) ELSE s

RECURSIVE RStrip(_)
RStrip(s) ==
    IF s # <<>> /\ s[Len(s)] \in Whitespace
    THEN RStrip(SubSeq(s, 1, Len(s) - 1)) ELSE s

Strip(s) == RStrip(LStrip(s))

\* _SENT_SPLIT.split(text): a separator is a whole run of whitespace whose
\* first character follows a terminal; cur is the piece being read, inrun
\* holds while a separator is being skipped
RECURSIVE SentSplitLoop(_, _, _, _)
SentSplitLoop(text, cur, out, inrun) ==
    IF text = <<>> THEN Append(out, cur)
    ELSE LET c == Head(text)
         IN IF inrun /\ c \in Whitespace
            THEN SentSplitLoop(Tail(text), cur, out, TRUE)
            ELSE IF /\ c \in Whitespace
                    /\ cur # <<>>
                    /\ cur[Len(cur)] \in Terminal
                 THEN SentSplitLoop(Tail(text), <<>>, Append(out, cur), TRUE)
                 ELSE SentSplitLoop(Tail(text), Append(cur, c), out, FALSE)

\* [s.strip() for s in sents if s.strip()]
RECURSIVE StripAll(_)
StripAll(sents) ==
    IF sents = <<>> THEN <<>>
    ELSE (IF Strip(Head(sents)) # <<>> THEN <<Strip(Head(sents))>> ELSE <<>>)
         \o StripAll(Tail(sents))

split_sentences(text) ==
    LET stripped == Strip(text)
    IN IF stripped = <<>> THEN <<>>
       ELSE StripAll(SentSplitLoop(stripped, <<>>, <<>>, FALSE))

\* score += idf.get(t, 0.0) over the terms
RECURSIVE ScoreTerms(_, _)
ScoreTerms(terms, idf) ==
    IF terms = <<>> THEN 0
    ELSE Get(idf, Head(terms), 0) + ScoreTerms(Tail(terms), idf)

\* scored: the pair (i, score) of every sentence, in order
ScoredSentences(sents, idf) ==
    [i \in DOMAIN sents |-> <<i, ScoreTerms(preprocess(sents[i]), idf)>>]

\* sorted(i for i, _ in top)
RECURSIVE SortedIndices(_)
SortedIndices(S) ==
    IF S = {} THEN <<>>
    ELSE LET least == CHOOSE i \in S : \A j \in S : i <= j
         IN <<least>> \o SortedIndices(S \ {least})

\* " ".join(parts)
RECURSIVE JoinSpace(_)
JoinSpace(parts) ==
    IF parts = <<>> THEN <<>>
    ELSE IF Len(parts) = 1 THEN Head(parts)
    ELSE Head(parts) \o <<" ">> \o JoinSpace(Tail(parts))

\* variant: the selected sentences are joined in score order
summarize_extractive_score_order(text, idf, num_sentences) ==
    LET sents == split_sentences(text)
    IN IF sents = <<>> THEN <<>>
       ELSE LET scored == ScoredSentences(sents, idf)
                top == SliceTo(SortDesc(<<>>, scored), Max(1, num_sentences))
            IN JoinSpace([k \in DOMAIN top |-> sents[top[k][1]]])

summarize_extractive(text, idf, num_sentences) ==
    LET sents == split_sentences(text)
    IN IF sents = <<>> THEN <<>>
       ELSE LET scored == ScoredSentences(sents, idf)
                top == SliceTo(SortDesc(<<>>, scored), Max(1, num_sentences))
                top_idx == SortedIndices({top[k][1] : k \in DOMAIN top})
            IN JoinSpace([k \in DOMAIN top_idx |-> sents[top_idx[k]]])

\* outcome of a call: the value returned, or the exception raised
Returned(v) == [ok |-> TRUE, val |-> v]

Raised(e) == [ok |-> FALSE, val |-> e]

\* a call summarize_extractive(text, idf=..., num_sentences=...) with or
\* without the keyword max_chars: the signature (lines 20-25) has no such
\* parameter, so a call that passes it raises TypeError before the body runs
call_summarize_extractive(text, idf, num_sentences, max_chars) ==
    IF max_chars # None THEN Raised("TypeError")
    ELSE Returned(summarize_extractive(text, idf, num_sentences))

(***************************************************************************)
(* Specification of summarize_extractive: the arguments are drawn in Init; *)
(* a text is up to MaxSents pieces of a menu, joined by one space or two.  *)
(***************************************************************************)
MaxSents == 3
MaxNumSentences == 3

\* pieces: sentences with a terminal, one of stopwords only, one with no
\* terminal
SmSentences ==
    {<<"B", "u", "k", "u", ".">>,
     <<"m", "a", "k", "a", "n", "l", "a", "h", "!">>,
     <<"i", "n", "i", " ", "i", "t", "u", ".">>,
     <<"b", "u", "k", "u", "n", "y", "a", " ", "o", "b", "a", "t", "n", "y", "a", "?">>,
     <<"b", "u", "k", "u">>}

SmSeparators == {<<" ">>, <<" ", " ">>}

RECURSIVE JoinWith(_, _)
JoinWith(parts, sep) ==
    IF parts = <<>> THEN <<>>
    ELSE IF Len(parts) = 1 THEN Head(parts)
    ELSE Head(parts) \o sep \o JoinWith(Tail(parts), sep)

SmTexts ==
    {JoinWith(parts, sep) :
        parts \in SeqsUpTo(SmSentences, MaxSents), sep \in SmSeparators}

SmIdfMenu ==
    {EmptyDict,
     [t \in {<<"b", "u", "k", "u">>, <<"m", "a", "k", "a", "n">>} |-> IF t = <<"b", "u", "k", "u">> THEN 2 ELSE 1],
     [t \in {<<"b", "u", "k", "u">>, <<"m", "a", "k", "a", "n">>, <<"o", "b", "a", "t">>} |-> IF t = <<"m", "a", "k", "a", "n">> THEN 2 ELSE 1]}

\* max_chars as the web pages pass it (320, 450), and a limit shorter than
\* the summaries of these texts
SmMaxChars == {8, 320, 450}

SmInit ==
    /\ IxIdle
    /\ RtIdle
    /\ WbIdle
    /\ QvIdle
    /\ StIdle
    /\ FsIdle
    /\ PpIdle
    /\ LdIdle
    /\ sm_text \in SmTexts
    /\ sm_idf \in SmIdfMenu
    /\ sm_num_sentences \in (0 - 1)..MaxNumSentences
    /\ sm_max_chars \in {None} \cup {Some(n) : n \in SmMaxChars}
    /\ sm_result = None

Summarize ==
    /\ sm_result = None
    /\ sm_result' = Some(call_summarize_extractive(sm_text, sm_idf,
                                                   sm_num_sentences,
                                                   sm_max_chars))
    /\ UNCHANGED <<sm_text, sm_idf, sm_num_sentences, sm_max_chars>>
    /\ UNCHANGED notSm

SmNext == Summarize

SpecSummarize == SmInit /\ [][SmNext]_vars

(***************************************************************************)
(* Specification of preprocess: the text is drawn in Init as up to         *)
(* MaxWords words of a menu, joined by a space or by a comma and a space.  *)
(***************************************************************************)
MaxWords == 2

\* stopwords (one capitalised), plain words, and words with a possessive or
\* a particle on them
PpWords ==
    {<<"I", "n", "i">>, <<"i", "t", "u">>, <<"b", "u", "k", "u">>,
     <<"b", "u", "k", "u", "n", "y", "a">>, <<"o", "b", "a", "t">>,
     <<"o", "b", "a", "t", "n", "y", "a">>,
     <<"m", "a", "k", "a", "n", "l", "a", "h">>,
     <<"t", "a", "n", "a", "m", "a", "n", "n", "y", "a">>}

PpSeparators == {<<" ">>, <<",", " ">>}

PpTexts ==
    {JoinWith(parts, sep) :
        parts \in SeqsUpTo(PpWords, MaxWords), sep \in PpSeparators}

PpInit ==
    /\ IxIdle
    /\ RtIdle
    /\ WbIdle
    /\ QvIdle
    /\ StIdle
    /\ FsIdle
    /\ SmIdle
    /\ LdIdle
    /\ pp_text \in PpTexts
    /\ pp_result = None

Preprocess ==
    /\ pp_result = None
    /\ pp_result' = Some(preprocess(pp_text))
    /\ UNCHANGED pp_text
    /\ UNCHANGED notPp

PpNext == Preprocess

SpecPreprocess == PpInit /\ [][PpNext]_vars

(***************************************************************************)
(* Loading the artifacts (indexing.load_index and webapp's                 *)
(* _load_artifacts_if_exist) from files of any content.  A JSON value is a *)
(* record tagged with its type: json.load makes no other check, so the     *)
(* value read is whatever the file holds.                                  *)
(***************************************************************************)
JDict(f) == [t |-> "dict", v |-> f]

JList(s) == [t |-> "list", v |-> s]

JNum(x) == [t |-> "num", v |-> x]

\* a JSON string, with what float() makes of it: Some(number), or None when
\* float() raises ValueError
JStr(s, as_float) == [t |-> "str", v |-> s, float |-> as_float]

\* a file that is not JSON, such as one cut off in the middle
Garbage == [t |-> "garbage"]

\* json.load(f)
json_load(content) ==
    IF content.t = "garbage" THEN Raised("JSONDecodeError")
    ELSE Returned(content)

\* load_index: json.load and nothing else
load_index(content) == json_load(content)

\* {k: float(v) for k, v in json.load(f).items()}: the files drawn below
\* have one value at most that float() rejects
load_idf(content) ==
    LET loaded == json_load(content)
        j == loaded.val
    IN IF ~loaded.ok THEN loaded
       ELSE IF j.t # "dict" THEN Raised("AttributeError")
       ELSE IF \E k \in DOMAIN j.v : j.v[k].t \in {"dict", "list"}
       THEN Raised("TypeError")
       ELSE IF \E k \in DOMAIN j.v : j.v[k].t = "str" /\ j.v[k].float = None
       THEN Raised("ValueError")
       ELSE Returned([k \in DOMAIN j.v |->
                         IF j.v[k].t = "num" THEN j.v[k].v
                         ELSE j.v[k].float.val])

\* build_doc_vectors on the value that load_index returned: index.items(),
\* postings.items() of the terms with a non-zero IDF, math.log(tf)
build_doc_vectors_loaded(index, model) ==
    IF index.t # "dict" THEN Raised("AttributeError")
    ELSE LET used == {term \in DOMAIN index.v :
                         ~IdfIsZero(Get(model.idf, term, ZeroIdf))}
         IN IF \E term \in used : index.v[term].t # "dict"
            THEN Raised("AttributeError")
            ELSE IF \E term \in used :
                       \E d \in DOMAIN index.v[term].v :
                          index.v[term].v[d].t # "num"
            THEN Raised("TypeError")
            ELSE Returned(build_doc_vectors(
                     [term \in used |->
                         [d \in DOMAIN index.v[term].v |-> index.v[term].v[d].v]],
                     model))

(***************************************************************************)
(* Specification of _load_artifacts_if_exist in a fresh process: the two   *)
(* files are drawn in Init, absent, well-formed or malformed; every        *)
(* assignment to a global is a step.  artifacts/selected_features.json is  *)
(* absent.                                                                 *)
(***************************************************************************)
LdCorpus == [d \in {"d1"} |-> <<"a">>]

LdIndexFiles ==
    {JDict([term \in {"a"} |-> JDict([d \in {"d1"} |-> JNum(1)])]),
     JDict([term \in {"a", "b"} |-> JDict([d \in {"d1"} |-> JNum(1)])]),
     JList(<<>>),
     JDict([term \in {"a"} |-> JStr("x", None)]),
     JDict([term \in {"a"} |-> JDict([d \in {"d1"} |-> JStr("two", None)])]),
     Garbage}

LdIdfFiles ==
    {JDict([term \in {"a"} |-> JNum(OneIdf)]),
     JDict([term \in {"a"} |-> JNum(ZeroIdf)]),
     JDict([term \in {"a"} |-> JStr("abc", None)]),
     JDict([term \in {"a"} |-> JStr("1.0", Some(OneIdf))]),
     JList(<<>>),
     Garbage}

LdInit ==
    /\ IxIdle
    /\ RtIdle
    /\ WbIdle
    /\ QvIdle
    /\ StIdle
    /\ FsIdle
    /\ SmIdle
    /\ PpIdle
    /\ ld_index_file \in {None} \cup {Some(c) : c \in LdIndexFiles}
    /\ ld_idf_file \in {None} \cup {Some(c) : c \in LdIdfFiles}
    /\ ld_DOCS = EmptyDict
    /\ ld_INDEX = None
    /\ ld_IDF = EmptyDict
    /\ ld_MODEL = None
    /\ ld_DOC_VECS = None
    /\ ld_pc = "call"
    /\ ld_outcome = None

\* if not os.path.exists(INDEX_PATH) or not os.path.exists(IDF_PATH)
ArtifactsExist ==
    /\ ld_pc = "call"
    /\ IF ld_index_file = None \/ ld_idf_file = None
       THEN /\ ld_pc' = "done"
            /\ ld_outcome' = Some(Returned(FALSE))
       ELSE /\ ld_pc' = "docs"
            /\ UNCHANGED ld_outcome
    /\ UNCHANGED <<ld_index_file, ld_idf_file, ld_DOCS, ld_INDEX, ld_IDF,
                   ld_MODEL, ld_DOC_VECS>>
    /\ UNCHANGED notLd

\* DOCS = load_corpus(...)
ArtifactDocs ==
    /\ ld_pc = "docs"
    /\ ld_DOCS' = LdCorpus
    /\ ld_pc' = "index"
    /\ UNCHANGED <<ld_index_file, ld_idf_file, ld_INDEX, ld_IDF, ld_MODEL,
                   ld_DOC_VECS, ld_outcome>>
    /\ UNCHANGED notLd

\* INDEX = load_index(INDEX_PATH)
ArtifactIndex ==
    /\ ld_pc = "index"
    /\ LET r == load_index(ld_index_file.val)
       IN IF r.ok
          THEN /\ ld_INDEX' = Some(r.val)
               /\ ld_pc' = "idf"
               /\ UNCHANGED ld_outcome
          ELSE /\ ld_pc' = "done"
               /\ ld_outcome' = Some(r)
               /\ UNCHANGED ld_INDEX
    /\ UNCHANGED <<ld_index_file, ld_idf_file, ld_DOCS, ld_IDF, ld_MODEL,
                   ld_DOC_VECS>>
    /\ UNCHANGED notLd

\* IDF = {k: float(v) for k, v in json.load(f).items()}
ArtifactIdf ==
    /\ ld_pc = "idf"
    /\ LET r == load_idf(ld_idf_file.val)
       IN IF r.ok
          THEN /\ ld_IDF' = r.val
               /\ ld_pc' = "model"
               /\ UNCHANGED ld_outcome
          ELSE /\ ld_pc' = "done"
               /\ ld_outcome' = Some(r)
               /\ UNCHANGED ld_IDF
    /\ UNCHANGED <<ld_index_file, ld_idf_file, ld_DOCS, ld_INDEX, ld_MODEL,
                   ld_DOC_VECS>>
    /\ UNCHANGED notLd

\* MODEL = TfidfModel(idf=IDF)
ArtifactModel ==
    /\ ld_pc = "model"
    /\ ld_MODEL' = Some(TfidfModel(ld_IDF))
    /\ ld_pc' = "vecs"
    /\ UNCHANGED <<ld_index_file, ld_idf_file, ld_DOCS, ld_INDEX, ld_IDF,
                   ld_DOC_VECS, ld_outcome>>
    /\ UNCHANGED notLd

\* DOC_VECS = build_doc_vectors(INDEX, MODEL)
ArtifactDocVecs ==
    /\ ld_pc = "vecs"
    /\ LET r == build_doc_vectors_loaded(ld_INDEX.val, ld_MODEL.val)
       IN IF r.ok
          THEN /\ ld_DOC_VECS' = Some(r.val)
               /\ ld_pc' = "return"
               /\ UNCHANGED ld_outcome
          ELSE /\ ld_pc' = "done"
               /\ ld_outcome' = Some(r)
               /\ UNCHANGED ld_DOC_VECS
    /\ UNCHANGED <<ld_index_file, ld_idf_file, ld_DOCS, ld_INDEX, ld_IDF,
                   ld_MODEL>>
    /\ UNCHANGED notLd

\* os.path.exists(FEATURES_PATH) is false; return True
ArtifactReturn ==
    /\ ld_pc = "return"
    /\ ld_pc' = "done"
    /\ ld_outcome' = Some(Returned(TRUE))
    /\ UNCHANGED <<ld_index_file, ld_idf_file, ld_DOCS, ld_INDEX, ld_IDF,
                   ld_MODEL, ld_DOC_VECS>>
    /\ UNCHANGED notLd

LdNext ==
    \/ ArtifactsExist
    \/ ArtifactDocs
    \/ ArtifactIndex
    \/ ArtifactIdf
    \/ ArtifactModel
    \/ ArtifactDocVecs
    \/ ArtifactReturn

SpecLoad == LdInit /\ [][LdNext]_vars

(***************************************************************************)
(* Claims about the indexing functions (checked under SpecIndex).          *)
(***************************************************************************)
\* number of occurrences of t in the token list toks
Occ(toks, t) == Cardinality({i \in DOMAIN toks : toks[i] = t})

\* C1: postings[t][d] exists exactly when t occurs in d's token list (and t
\* is in allowed_terms when a set, even the empty one, is supplied); the
\* entry is the number of occurrences, so every tf >= 1, no postings list is
\* empty, and an empty allowed set gives an empty index.
C1_PostingsExact ==
    "index" \in ix_done =>
        /\ DOMAIN ix_index \subseteq Terms
        /\ \A t \in DOMAIN ix_index :
              /\ DOMAIN ix_index[t] \subseteq DocIds
              /\ DOMAIN ix_index[t] # {}
              /\ \A d \in DOMAIN ix_index[t] : ix_index[t][d] >= 1
        /\ \A t \in Terms, d \in DocIds :
              LET occurs == /\ d \in DOMAIN ix_doc_tokens
                            /\ Occ(ix_doc_tokens[d], t) >= 1
                            /\ (ix_allowed.given => t \in ix_allowed.terms)
                  stored == t \in DOMAIN ix_index /\ d \in DOMAIN ix_index[t]
              IN /\ stored <=> occurs
                 /\ stored => ix_index[t][d] = Occ(ix_doc_tokens[d], t)
        /\ (ix_allowed.given /\ ix_allowed.terms = {}) => ix_index = EmptyDict

\* a filtered build: one document repeats a kept term, another holds only
\* a dropped term and so has no entry at all
C1_Witness ==
    /\ "index" \in ix_done
    /\ ix_allowed.given
    /\ \E d, e \in DOMAIN ix_doc_tokens, t, u \in Terms :
          /\ t \in ix_allowed.terms
          /\ u \notin ix_allowed.terms
          /\ Occ(ix_doc_tokens[d], t) = 2
          /\ ix_index[t][d] = 2
          /\ TokSet(ix_doc_tokens[e]) = {u}
          /\ u \notin DOMAIN ix_index

\* C2: the document count N that compute_idf uses equals the number of
\* documents in doc_tokens, documents without any indexed term included
\* (stated for a corpus of at least one document, where the max(1, .) of
\* compute_idf plays no part).
C2_DocCount ==
    ("idf" \in ix_done /\ ix_doc_tokens # EmptyDict) => ix_N = Cardinality(DOMAIN ix_doc_tokens)

\* C3: the df of compute_df, and the df compute_idf and
\* build_tf_df_idf_matrix take as len(postings), equal the number of
\* documents in the term's postings of the index built without a filter.
C3_DfIsPostingsSize ==
    ("index" \in ix_done /\ ~ix_allowed.given) =>
        /\ "df" \in ix_done =>
              /\ DOMAIN ix_df = DOMAIN ix_index
              /\ \A t \in DOMAIN ix_index :
                    ix_df[t] = Cardinality(DOMAIN ix_index[t])
        /\ ("df" \in ix_done /\ "idf" \in ix_done) =>
              /\ DOMAIN ix_idf = DOMAIN ix_df
              /\ \A t \in DOMAIN ix_df :
                    ix_idf[t].den = (IF ix_smooth THEN 1 ELSE 0) + ix_df[t]
        /\ ("df" \in ix_done /\ "matrix" \in ix_done) =>
              /\ DOMAIN ix_matrix = DOMAIN ix_df
              /\ \A t \in DOMAIN ix_df : ix_matrix[t] = ix_df[t]

\* all four functions applied to a corpus where a term repeats inside one
\* document and also occurs in the other
C3_Witness ==
    /\ ix_done = {"index", "df", "idf", "matrix"}
    /\ ~ix_allowed.given
    /\ \E t \in DOMAIN ix_df, d \in DOMAIN ix_doc_tokens :
          /\ Occ(ix_doc_tokens[d], t) = 2
          /\ ix_df[t] = 2
          /\ ix_matrix[t] = 2

(***************************************************************************)
(* Claims about retrieve (checked under SpecRetrieve).                     *)
(***************************************************************************)
\* the documents of a result list
ResDocs(res) == {res[i][1] : i \in DOMAIN res}

\* the score of document d against the query of this run
RtScore(d) == cosine(rt_q_vec, Get(rt_doc_vecs, d, EmptyDict))

\* d is in the postings of at least one term of the query vector
SharesTerm(d) ==
    \E t \in DOMAIN rt_q_vec : t \in DOMAIN rt_index /\ d \in DOMAIN rt_index[t]

\* the candidates with a score above 0
RtPositive == {d \in RDocs : SharesTerm(d) /\ RtScore(d) > 0}

IsPrefix(s, t) == Len(s) <= Len(t) /\ SubSeq(t, 1, Len(s)) = s

\* C6: every returned document is in the postings of at least one term of
\* the query vector.
C6_OnlyCandidates ==
    \A c \in DOMAIN rt_calls :
        \A d \in ResDocs(rt_calls[c].result) : SharesTerm(d)

\* a call that had room left (top_k above the result's length) and still
\* left out a document whose vector matches the query, because no postings
\* list of a query term names it
C6_Witness ==
    \E c \in DOMAIN rt_calls :
        /\ rt_calls[c].result # <<>>
        /\ rt_calls[c].top_k > Len(rt_calls[c].result)
        /\ \E d \in RDocs :
              /\ RtScore(d) > 0
              /\ ~SharesTerm(d)
              /\ d \notin ResDocs(rt_calls[c].result)

\* C7: for top_k >= 0 the result is the positive-score candidates in
\* non-increasing score order cut to top_k: min(top_k, number of positive
\* candidates) entries, none with score 0, none omitted that scores higher
\* than a returned one.
C7_TopKOfPositive ==
    \A c \in DOMAIN rt_calls :
        rt_calls[c].top_k >= 0 =>
            LET res == rt_calls[c].result IN
            /\ Len(res) = Min(rt_calls[c].top_k, Cardinality(RtPositive))
            /\ \A i \in DOMAIN res :
                  /\ res[i][1] \in RtPositive
                  /\ res[i][2] = RtScore(res[i][1])
                  /\ res[i][2] > 0
            /\ \A i, j \in DOMAIN res :
                  i < j => (res[i][1] # res[j][1] /\ res[i][2] >= res[j][2])
            /\ \A d \in RtPositive \ ResDocs(res) :
                  \A i \in DOMAIN res : RtScore(d) <= res[i][2]

\* a call with top_k = 2 over three positive candidates of unequal scores:
\* the result is cut, and the omitted candidate scores no higher
C7_Witness ==
    \E c \in DOMAIN rt_calls :
        /\ rt_calls[c].top_k = 2
        /\ Cardinality(RtPositive) = 3
        /\ Len(rt_calls[c].result) = 2
        /\ rt_calls[c].result[1][2] > rt_calls[c].result[2][2]
        /\ \E d \in RtPositive \ ResDocs(rt_calls[c].result) :
              RtScore(d) <= rt_calls[c].result[2][2]

\* C8: retrieve with top_k <= 0 returns an empty result.
C8_NonPositiveTopKEmpty ==
    \A c \in DOMAIN rt_calls :
        rt_calls[c].top_k <= 0 => rt_calls[c].result = <<>>

\* C9: two calls with identical arguments return the identical ordered
\* list, equal-score documents included (stated for top_k > 0, where the
\* result is the head of the ranking).
C9_Deterministic ==
    \A c1, c2 \in DOMAIN rt_calls :
        (rt_calls[c1].top_k = rt_calls[c2].top_k /\ rt_calls[c1].top_k > 0) =>
            rt_calls[c1].result = rt_calls[c2].result

\* C10: for k1 <= k2 the result for k1 is a prefix of the result for k2
\* (stated where no two positive candidates have the same score, so that
\* the order of the full ranking is the same in both calls).
C10_TopKMonotone ==
    (\A d, e \in RtPositive : d # e => RtScore(d) # RtScore(e)) =>
        \A c1, c2 \in DOMAIN rt_calls :
            rt_calls[c1].top_k <= rt_calls[c2].top_k =>
                IsPrefix(rt_calls[c1].result, rt_calls[c2].result)

(***************************************************************************)
(* Claims about the web application (checked under Spec).                  *)
(***************************************************************************)
\* the positions inside _load_artifacts_if_exist
LoadPcs == {"load_exists", "load_docs", "load_index", "load_idf",
            "load_model", "load_vecs", "load_report"}

\* C4: a search that runs while _rebuild_index runs never uses an INDEX, a
\* MODEL and DOC_VECS of different rebuilds: a search that began with the
\* globals of one generation has read, when it ranks, three values of one
\* generation.
C4_AtomicSwap ==
    (wb_s_pc = "ranked" /\ wb_s_clean) =>
        OneGeneration(wb_s_used.index.val, wb_s_used.model.val,
                      wb_s_used.vecs.val)

\* C5: whenever no rebuild and no load is under way, the IDF table in use
\* (IDF and MODEL.idf) was computed from the INDEX in use.
C5_IdfPairedWithIndex ==
    (wb_r_pc = "idle" /\ wb_s_pc \notin LoadPcs /\ wb_INDEX.some /\ wb_MODEL.some)
        => /\ Paired(wb_INDEX.val, wb_IDF)
           /\ Paired(wb_INDEX.val, wb_MODEL.val.idf)

(***************************************************************************)
(* Claims about build_query_vector (checked under SpecQuery).              *)
(***************************************************************************)
\* the query terms that are keys of the IDF table, in query order
SeenTerms == FilterSeq(qv_q_terms, DOMAIN qv_model.idf)

\* C11: the query vector has an entry exactly for the query terms that are
\* keys of the IDF table, its weight counts the term's occurrences in the
\* query, and terms the table lacks change nothing (neither the entries nor
\* the norm); when no query term is in the table (the empty query too) the
\* vector is empty and retrieve returns the empty list.
C11_UnseenTermsDropped ==
    /\ qv_vec # None =>
          /\ DOMAIN qv_vec.val = {t \in DOMAIN qv_model.idf : Occ(qv_q_terms, t) > 0}
          /\ \A t \in DOMAIN qv_vec.val :
                /\ qv_vec.val[t].num.tf = Occ(qv_q_terms, t)
                /\ qv_vec.val[t].num.idf = qv_model.idf[t]
                /\ DOMAIN qv_vec.val[t].norm.of \subseteq DOMAIN qv_model.idf
          /\ qv_vec.val = build_query_vector(SeenTerms, qv_model)
          /\ (SeenTerms = <<>> => qv_vec.val = EmptyDict)
    /\ (qv_result # None /\ SeenTerms = <<>>) => qv_result.val = <<>>

\* a query of unseen terms only, one of which has postings in the index,
\* was vectorised and retrieved
C11_Witness ==
    /\ qv_q_terms # <<>>
    /\ SeenTerms = <<>>
    /\ \E i \in DOMAIN qv_q_terms :
          /\ qv_q_terms[i] \in DOMAIN qv_index
          /\ DOMAIN qv_index[qv_q_terms[i]] \cap DOMAIN qv_doc_vecs # {}
    /\ qv_vec = Some(EmptyDict)
    /\ qv_result = Some(<<>>)

(***************************************************************************)
(* Claims about stem_word (checked under SpecStem).                        *)
(***************************************************************************)
\* one step of stem_word at position pc either leaves the word and the
\* measure alone or, with the measure above 2, cuts exactly one of sufs off
\* the end of the word and lowers the measure by 1; it cuts when it can
StripsOneOf(sufs) ==
    IF st_measure > 2 /\ \E i \in DOMAIN sufs : EndsWith(st_word, sufs[i])
    THEN /\ \E i \in DOMAIN sufs : st_word = st_word' \o sufs[i]
         /\ st_measure' = st_measure - 1
    ELSE /\ st_word' = st_word
         /\ st_measure' = st_measure

\* C12: stem_word strips at most one trailing particle (kah, lah, pun) and
\* then at most one trailing possessive (ku, mu, nya), each only while the
\* measure is above 2 and each lowering the measure by 1; once the measure
\* is 2 after either step the word is returned as it is (makanlah gives
\* makan, bukunya gives buku).
C12_OneParticleOnePossessive ==
    [][/\ st_pc = "particle" => StripsOneOf(Particles)
       /\ st_pc = "possessive" => StripsOneOf(PossessivePronouns)
       /\ st_pc' = "particle" => st_pc = "call"
       /\ st_pc' = "possessive" => st_pc = "particle"
       /\ st_pc \notin {"particle", "possessive"} =>
             \A sufs \in {Particles, PossessivePronouns} :
                \A i \in DOMAIN sufs : st_word # st_word' \o sufs[i]
       /\ (st_pc \in {"particle", "possessive"} /\ st_measure' <= 2) =>
             st_pc' = "done"
       /\ st_pc = "done" => st_word' = st_word
       /\ (st_pc' = "done" /\ st_input = <<"m", "a", "k", "a", "n", "l", "a", "h">>) => st_word' = <<"m", "a", "k", "a", "n">>
       /\ (st_pc' = "done" /\ st_input = <<"b", "u", "k", "u", "n", "y", "a">>) => st_word' = <<"b", "u", "k", "u">>
      ]_vars

\* makanlah was stemmed: the particle went, the measure fell to 2 and the
\* word was returned
C12_Witness ==
    /\ st_pc = "done"
    /\ st_input = <<"m", "a", "k", "a", "n", "l", "a", "h">>
    /\ st_word = <<"m", "a", "k", "a", "n">>
    /\ st_measure = 2

EndsSi(w) == EndsWith(w, <<"s", "i">>)

\* nothing that stem_word strips is on the word: no particle or possessive
\* at its end, no first- or second-order prefix at its start
NothingStrippable(w) ==
    /\ \A i \in DOMAIN Particles : ~EndsWith(w, Particles[i])
    /\ \A i \in DOMAIN PossessivePronouns : ~EndsWith(w, PossessivePronouns[i])
    /\ ~remove_first_order_prefix(w, StemState(count_vowels(w), 0)).removed
    /\ ~remove_second_order_prefix(w, StemState(count_vowels(w), 0)).removed

\* C13: no step of stem_word deletes the final i of a working string that
\* ends in si (the string still ends in si after the step); a word in si
\* with no strippable particle, possessive or prefix, such as organisasi,
\* is returned unchanged.
C13_SiProtected ==
    [][/\ EndsSi(st_word) => EndsSi(st_word')
       /\ (st_pc' = "done" /\ EndsSi(st_input) /\ NothingStrippable(st_input))
             => st_word' = st_input
       /\ (st_pc' = "done" /\ st_input = <<"o", "r", "g", "a", "n", "i", "s", "a", "s", "i">>) => st_word' = <<"o", "r", "g", "a", "n", "i", "s", "a", "s", "i">>
      ]_vars

\* diorganisasi lost its prefix, _remove_suffix ran on organisasi with the
\* measure at 5 and kept the final i
C13_Witness ==
    /\ st_input = <<"d", "i", "o", "r", "g", "a", "n", "i", "s", "a", "s", "i">>
    /\ st_pc = "second_after_first"
    /\ st_measure > 2
    /\ st_word = <<"o", "r", "g", "a", "n", "i", "s", "a", "s", "i">>

\* C14: no step changes the word while the measure is 2 or less, and a step
\* that lowers the measure leaves it at 2 or more; a word of at most two
\* vowels is returned unchanged, stemming a result of at most two vowels
\* again gives it back, and the result for a word of more than two vowels
\* has at least two vowels.
C14_MeasureFloor ==
    [][/\ st_word' # st_word => st_measure > 2
       /\ st_measure' < st_measure => st_measure' >= 2
       /\ st_pc' = "done" =>
             /\ count_vowels(st_input) <= 2 => st_word' = st_input
             /\ count_vowels(st_word') <= 2 => stem_word(st_word') = st_word'
             /\ count_vowels(st_input) > 2 =>
                   /\ count_vowels(st_word') >= 2
                   /\ st_measure' >= 2
      ]_vars

\* a word of more than two vowels was cut down to measure 2 and returned
\* there, although a suffix that _remove_suffix would take is still on it
C14_Witness ==
    /\ st_pc = "done"
    /\ count_vowels(st_input) > 2
    /\ st_word # st_input
    /\ st_measure = 2
    /\ count_vowels(st_word) = 2
    /\ remove_suffix(st_word, StemState(3, st_prefix_code)).removed

(***************************************************************************)
(* Claims about select_features_df (checked under SpecSelect).             *)
(***************************************************************************)
\* the number of documents of the corpus that hold term t
FsDf(t) ==
    Cardinality({d \in DOMAIN fs_doc_tokens :
                    \E i \in DOMAIN fs_doc_tokens[d] : fs_doc_tokens[d][i] = t})

FsN == Cardinality(DOMAIN fs_doc_tokens)

\* max(1, floor(max_df_ratio x N))
FsMaxDf == Max(1, (fs_max_df_pct * FsN) \div 100)

\* the terms of the corpus whose df is within the bounds
FsSurvivors ==
    {t \in {TermOrder[i] : i \in DOMAIN TermOrder} :
        FsDf(t) >= 1 /\ fs_min_df <= FsDf(t) /\ FsDf(t) <= FsMaxDf}

\* C15: for a corpus of N >= 1 documents every selected term has
\* min_df <= df <= max(1, floor(max_df_ratio x N)), and when top_n is None
\* or not smaller than the number of such terms, the selected terms are
\* exactly the terms within these bounds.
C15_DfBounds ==
    (fs_result # None /\ FsN >= 1) =>
        /\ fs_result.val.selected \subseteq FsSurvivors
        /\ fs_result.val.report.max_df = FsMaxDf
        /\ (~fs_top_n.some \/ fs_top_n.val >= Cardinality(FsSurvivors)) =>
              fs_result.val.selected = FsSurvivors

\* a selection without cap from a corpus that has a term above max_df, a
\* term below min_df and a term within the bounds
C15_Witness ==
    /\ fs_result # None
    /\ fs_top_n = None
    /\ FsN >= 1
    /\ \E above, below \in {"a", "b", "c"} :
          /\ FsDf(above) > FsMaxDf
          /\ FsDf(below) >= 1
          /\ FsDf(below) < fs_min_df
    /\ fs_result.val.selected = FsSurvivors
    /\ FsSurvivors # {}

\* s comes before r in the order (df descending, then term ascending)
FsBefore(s, r) ==
    \/ FsDf(s) > FsDf(r)
    \/ FsDf(s) = FsDf(r) /\ TermRank(s) < TermRank(r)

\* C16: when more than top_n >= 0 terms are within the df bounds, exactly
\* top_n of them are selected and every selected term comes before every
\* rejected one in the order (df descending, then term ascending); of two
\* terms of equal df the later one is never selected without the earlier.
C16_TopNCut ==
    (/\ fs_result # None
     /\ fs_top_n.some
     /\ fs_top_n.val >= 0
     /\ Cardinality(FsSurvivors) > fs_top_n.val) =>
        /\ fs_result.val.selected \subseteq FsSurvivors
        /\ Cardinality(fs_result.val.selected) = fs_top_n.val
        /\ \A s \in fs_result.val.selected :
              \A r \in FsSurvivors \ fs_result.val.selected : FsBefore(s, r)

\* the cap fell between two terms of equal df, and a term of higher df was
\* selected ahead of a lexicographically earlier term
C16_Witness ==
    /\ fs_result # None
    /\ fs_top_n.some
    /\ fs_top_n.val >= 1
    /\ Cardinality(FsSurvivors) > fs_top_n.val
    /\ \E s \in fs_result.val.selected :
          \E r \in FsSurvivors \ fs_result.val.selected : FsDf(s) = FsDf(r)
    /\ \E s \in fs_result.val.selected :
          \E r \in FsSurvivors : FsDf(s) > FsDf(r) /\ TermRank(s) > TermRank(r)

(***************************************************************************)
(* Claims about summarize_extractive (checked under SpecSummarize).        *)
(***************************************************************************)
\* the sentences of the text and their scores
SmSents == split_sentences(sm_text)

SmScore(i) == ScoreTerms(preprocess(SmSents[i]), sm_idf)

\* sentence i is ahead of sentence j: higher score, or equal score and
\* earlier in the text
SmAhead(i, j) == SmScore(i) > SmScore(j) \/ (SmScore(i) = SmScore(j) /\ i < j)

\* sent stands in the text as it is
OccursIn(sent, text) ==
    \E o \in 0..(Len(text) - Len(sent)) : SubSeq(text, o + 1, o + Len(sent)) = sent

\* the sentences of K, in the order of the text, single spaces between
RECURSIVE InTextOrder(_, _)
InTextOrder(K, from) ==
    IF \A i \in K : i < from THEN <<>>
    ELSE IF from \in K
         THEN SmSents[from]
              \o (IF \E i \in K : i > from THEN <<" ">> ELSE <<>>)
              \o InTextOrder(K, from + 1)
         ELSE InTextOrder(K, from + 1)

\* the value returned is the count sentences that are ahead of all others,
\* each an original sentence of the text, joined in text order
SummaryOfTop(count) ==
    /\ sm_result.val.ok
    /\ \E K \in SUBSET DOMAIN SmSents :
          /\ Cardinality(K) = count
          /\ \A i \in K : \A j \in DOMAIN SmSents \ K : SmAhead(i, j)
          /\ \A i \in K : OccursIn(SmSents[i], sm_text)
          /\ sm_result.val.val = InTextOrder(K, 1)

\* C17, as stated: a call without max_chars, num_sentences >= 0, returns
\* the num_sentences sentences of highest score (all of them when the text
\* has fewer), ties won by the earlier sentence, joined with single spaces
\* in text order.
C17_TopSentencesInOrder ==
    (sm_result # None /\ sm_max_chars = None /\ sm_num_sentences >= 0) =>
        SummaryOfTop(Min(sm_num_sentences, Len(SmSents)))

\* C17, amended: the number of sentences selected is max(1, num_sentences),
\* or the number of sentences of the text when that is smaller; for three
\* sentences and num_sentences = 2 it is two.
C17_AtLeastOneSentence ==
    (sm_result # None /\ sm_max_chars = None) =>
        /\ SummaryOfTop(Min(Max(1, sm_num_sentences), Len(SmSents)))
        /\ (Len(SmSents) = 3 /\ sm_num_sentences = 2) => SummaryOfTop(2)

\* three sentences, num_sentences = 2: the two selected are the first and
\* the third, the third has the higher score, the first won a tie against
\* the second, and they were returned in text order
C17_Witness ==
    /\ sm_result # None
    /\ sm_max_chars = None
    /\ sm_num_sentences = 2
    /\ Len(SmSents) = 3
    /\ SmScore(3) > SmScore(1)
    /\ SmScore(1) = SmScore(2)
    /\ sm_result.val.ok
    /\ sm_result.val.val = SmSents[1] \o <<" ">> \o SmSents[3]

\* C18: a call that passes max_chars does not fail, and the summary it
\* returns is no longer than max_chars plus the three characters of an
\* ellipsis marker.
C18_MaxCharsAccepted ==
    (sm_result # None /\ sm_max_chars # None) =>
        /\ sm_result.val.ok
        /\ Len(sm_result.val.val) <= sm_max_chars.val + 3

(***************************************************************************)
(* Claims about preprocess (checked under SpecPreprocess).                 *)
(***************************************************************************)
\* the stopword set that remove_stopwords applies when preprocess calls it
AppliedStopwords == data \cup DOMAIN_STOPWORDS \cup DEFAULT_STOPWORDS

\* C20: no token of the list that preprocess returns is a member of the
\* stopword set that remove_stopwords applies, and the returned tokens are
\* the stems of the tokens of the text that are not stopwords, in the order
\* of the text.
C20_NoStopwordReturned ==
    pp_result # None =>
        /\ \A i \in DOMAIN pp_result.val : pp_result.val[i] \notin AppliedStopwords
        /\ LET kept == SelectSeq(tokenize(pp_text),
                                 LAMBDA t : t \notin AppliedStopwords)
           IN pp_result.val = [i \in DOMAIN kept |-> stem_word(kept[i])]

(***************************************************************************)
(* Claims about loading the artifacts (checked under SpecLoad).            *)
(***************************************************************************)
\* an index file of the right shape: term -> doc -> number
WellFormedIndex(c) ==
    /\ c.t = "dict"
    /\ \A term \in DOMAIN c.v :
          /\ c.v[term].t = "dict"
          /\ \A d \in DOMAIN c.v[term].v : c.v[term].v[d].t = "num"

\* an IDF file of the right shape: term -> number
WellFormedIdf(c) ==
    /\ c.t = "dict"
    /\ \A term \in DOMAIN c.v : c.v[term].t = "num"

\* C19: a malformed index is never the current index; a load from a
\* malformed index or IDF file fails (any exception is taken for the
\* CorruptArtifact failure here), and after it no global of the index
\* generation is set (no index available, no partial state).
C19_MalformedRejected ==
    /\ ld_INDEX # None => WellFormedIndex(ld_INDEX.val)
    /\ (/\ ld_pc = "done"
        /\ ld_index_file # None
        /\ ld_idf_file # None
        /\ ~(WellFormedIndex(ld_index_file.val) /\ WellFormedIdf(ld_idf_file.val))) =>
          /\ ld_outcome # None
          /\ ~ld_outcome.val.ok
          /\ ld_INDEX = None
          /\ ld_IDF = EmptyDict
          /\ ld_MODEL = None
          /\ ld_DOC_VECS = None

\* the working string begins with prefix p followed by a vowel
BeforeVowel(p) ==
    /\ StartsWith(st_word, p)
    /\ Len(st_word) > Len(p)
    /\ st_word[Len(p) + 1] \in VOWELS

\* the step put consonant c in the place of prefix p
Substituted(p, c) == st_word' = <<c>> \o DropFirst(st_word, Len(p))

\* C21: the first-order prefix step of stem_word turns menyV... and
\* penyV... into sV..., and memV... and pemV... into pV... (V a vowel): the
\* prefix is replaced by the consonant, not merely deleted.
C21_NasalSubstitution ==
    [][st_pc = "first" =>
          /\ BeforeVowel(<<"m", "e", "n", "y">>) => Substituted(<<"m", "e", "n", "y">>, "s")
          /\ BeforeVowel(<<"p", "e", "n", "y">>) => Substituted(<<"p", "e", "n", "y">>, "s")
          /\ BeforeVowel(<<"m", "e", "m">>) => Substituted(<<"m", "e", "m">>, "p")
          /\ BeforeVowel(<<"p", "e", "m">>) => Substituted(<<"p", "e", "m">>, "p")
      ]_vars

\* C22: from the moment stem_word has made its StemState, the measure is
\* the number of vowels of the working string: it starts as the vowel count
\* of the input, and every step that changes the string lowers it by
\* exactly 1 (the substitutions and the pelajar/belajar exceptions too).
C22_MeasureIsVowelCount ==
    [][st_input # <<>> =>
          /\ st_pc = "call" => st_measure' = count_vowels(st_input)
          /\ st_pc' # "call" => st_measure' = count_vowels(st_word')
          /\ (st_pc # "call" /\ st_word' # st_word) => st_measure' = st_measure - 1
          /\ (st_pc # "call" /\ st_word' = st_word) => st_measure' = st_measure
      ]_vars

\* pelajarannya lost its possessive, then pel by the pelajar exception,
\* then the suffix an: three removals took the measure from 5 to 2
C22_Witness ==
    /\ st_pc = "done"
    /\ st_input = <<"p", "e", "l", "a", "j", "a", "r", "a", "n", "n", "y", "a">>
    /\ st_word = <<"a", "j", "a", "r">>
    /\ st_prefix_code = 2
    /\ st_measure = 2

(***************************************************************************)
(* Claim about the sparsity of the vectors (checked under SpecQuery).      *)
(***************************************************************************)
\* the weight (1.0 + math.log(tf)) * idf, divided by a positive norm, is
\* 0.0: tf >= 1, so exactly when the idf is
ZeroWeight(w) == IdfIsZero(w.idf)

\* C23: no vector that build_doc_vectors or build_query_vector returns has
\* a term of weight 0, whatever the IDF table (an unsmoothed table gives
\* idf 0 to a term that every document holds): such a term is left out.
C23_NoZeroWeight ==
    /\ LET docs == build_doc_vectors(qv_index, qv_model)
       IN \A d \in DOMAIN docs : \A t \in DOMAIN docs[d] : ~ZeroWeight(docs[d][t])
    /\ qv_vec # None =>
          \A t \in DOMAIN qv_vec.val : ~ZeroWeight(qv_vec.val[t].num)

====
